---- MODULE Spec2Model ----
(***************************************************************************)
(* Grit Flow: question generator, checkpoint scoring and the progress RPCs *)
(* as state machines.                                                      *)
(*                                                                         *)
(* The specifications share the variables below:                          *)
(*   SpecGen         generateQuestionSet as a pure function of its config  *)
(*                   and of the random draws it makes                      *)
(*   SpecCheckpoint  the checkpoint module router (generate / submit) over *)
(*                   the Attempt and UserProgress tables                   *)
(*   Spec            the application router (lib/trpc/router.ts) and the   *)
(*                   checkpoint screen that calls it                       *)
(*   SpecAdaptive    calculateComplexityAdjustment over any signals        *)
(*   SpecFeedback    the results page and the question feedback route      *)
(*   SpecAutoSave    useAutoSave and useOfflineQueue under a clock and a   *)
(*                   connection that comes and goes                        *)
(*   SpecScreen      CheckpointScreen and useCheckpointState, click by     *)
(*                   click, over the tables its mutations write            *)
(*   SpecScreenLive  SpecScreen with its steps taken when they can be      *)
(*   SpecFlush       the offline sync queue: enqueueMutation, flushQueue   *)
(*                                                                         *)
(* Numbers: every ratio of the source is a decimal fraction; the model     *)
(* keeps them as integers over a power of ten and rounds exactly.  The     *)
(* IEEE-754 results of the source expressions were compared with the exact *)
(* ones for every argument the model can reach (question counts 0..10,     *)
(* complexity 1..4, bucket totals up to 2/4/3): they agree everywhere.     *)
(***************************************************************************)
EXTENDS Integers, Sequences, FiniteSets, TLC

VARIABLES
  config,           \* SpecGen: the argument of the last generateQuestionSet call
  result,           \* SpecGen: what that call returned (or that it threw)
  clientQuestions,  \* the question set the checkpoint screen holds (checkpoint.generate)
  attempt,          \* table Attempt, in creation order
  userProgress,     \* table UserProgress, keyed by <<userId, subtopicId>>
  user,             \* table User: the ids that exist
  request,          \* the last RPC call: procedure and input
  response,         \* what that call returned, or the error it threw
  resultsScreen,    \* ResultsScreen: feedbackCache, loadingFeedback, expandedQuestions
  offlineQueue,     \* useOfflineQueue: isOnline, queue, localStorage, the handler's closure
  autoSave,         \* useAutoSave: the refs, the debounce timer, the mutation in flight
  browser,          \* the browser and the network: navigator.onLine, what the server got
  checkpointState,  \* useCheckpointState: status, currentIndex, questions, answers, score
  checkpointScreen  \* CheckpointScreen: the query, the dialogs, the mutations in flight

genVars == <<config, result>>
dbVars  == <<attempt, userProgress, user>>
rpcVars == <<clientQuestions, request, response>>
uiVars  == <<resultsScreen, offlineQueue, autoSave, browser, checkpointState, checkpointScreen>>
vars    == <<config, result, clientQuestions, attempt, userProgress, user, request, response,
             resultsScreen, offlineQueue, autoSave, browser, checkpointState, checkpointScreen>>

None == "none"

\* The value of a record-valued variable that holds no record yet.
Nil == [nil |-> TRUE]

\* No page of the client is mounted.
InitUi ==
  /\ resultsScreen = Nil
  /\ offlineQueue = Nil
  /\ autoSave = Nil
  /\ browser = Nil
  /\ checkpointState = Nil
  /\ checkpointScreen = Nil

(***************************************************************************)
(* Arithmetic helpers                                                      *)
(***************************************************************************)
Min(a, b) == IF a < b THEN a ELSE b
Max(a, b) == IF a > b THEN a ELSE b

\* Math.round(n / d) for n >= 0, d > 0: halves round up.
MathRound(n, d) == (2 * n + d) \div (2 * d)

\* Math.ceil(n / d) for n >= 0, d > 0.
MathCeil(n, d) == (n + d - 1) \div d

RECURSIVE Repeat(_, _)
Repeat(x, n) == IF n <= 0 THEN <<>> ELSE <<x>> \o Repeat(x, n - 1)

Range(s) == {s[i] : i \in DOMAIN s}

(***************************************************************************)
(* Question generator engine (src/lib/question-generator/engine.ts)        *)
(***************************************************************************)
DifficultyLevel == {"easy", "medium", "hard"}

DifficultyRank(d) == CASE d = "easy" -> 0 [] d = "medium" -> 1 [] d = "hard" -> 2

\* Bound: the random suffixes (timestamp and Math.random() part) a question
\* id can carry are 0 .. NumIdSuffix - 1.
NumIdSuffix == 2
IdSuffixes == 0 .. (NumIdSuffix - 1)

\* Every order [0,1,2,3].sort(() => Math.random() - 0.5) can leave.
ShuffleOutcomes ==
  {p \in [0 .. 3 -> 0 .. 3] : \A i, j \in 0 .. 3 : i # j => p[i] # p[j]}

\* What one call draws from Date.now() and Math.random(): the order the
\* shuffle leaves and the id suffix.  The suffix of each question is the
\* call's draw paired with the question's position, so the ids of one set
\* are distinct and two calls agree on an id only when their draws agree.
RandomDraws == [shuffle : ShuffleOutcomes, suffix : IdSuffixes]

\* Bound: the calls made through the routers draw their shuffle from the
\* first NumShuffles rotations of [0,1,2,3] (each puts another index first).
NumShuffles == 2
ShufflesTried == {[i \in 0 .. 3 |-> (i + r) % 4] : r \in 0 .. (Min(NumShuffles, 4) - 1)}
RouterDraws == [shuffle : ShufflesTried, suffix : IdSuffixes]

\* QuestionGeneratorConfigSchema: integer 1..4 and integer 0..2.
ConfigIsValid(cfg) ==
  /\ cfg.complexityScore \in 1 .. 4
  /\ cfg.adaptationModifier \in 0 .. 2

\* Mutant: the complexity offset is the score itself, not score - 1.
calculateQuestionCount_NoOffset(complexityScore, adaptationModifier) ==
  Min(5 + complexityScore + adaptationModifier, 10)

calculateQuestionCount(complexityScore, adaptationModifier) ==
  LET baseCount == 5
      complexityOffset == complexityScore - 1
      calculatedCount == baseCount + complexityOffset + adaptationModifier
  IN  Min(calculatedCount, 10)

\* Mutant: Math.floor where the source has Math.round.
calculateDistribution_Floor(totalCount, complexityScore) ==
  LET mcqTenths == IF complexityScore <= 2 THEN 7 ELSE 5
      mcqCount == (totalCount * mcqTenths) \div 10
  IN  [mcq |-> mcqCount, shortAnswer |-> totalCount - mcqCount]

\* mcqPercentage in tenths: 0.7 or 0.5.
calculateDistribution(totalCount, complexityScore) ==
  LET mcqTenths == IF complexityScore <= 2 THEN 7 ELSE 5
      mcqCount == MathRound(totalCount * mcqTenths, 10)
      shortAnswerCount == totalCount - mcqCount
  IN  [mcq |-> mcqCount, shortAnswer |-> shortAnswerCount]

\* Mutant: the hard bucket is rounded from its own ratio, like the other two,
\* instead of taking the remainder.
generateDifficultyCurve_HardRounded(totalCount, complexityScore) ==
  LET easyCount == Max(1, MathRound(totalCount * (40 - complexityScore * 5), 100))
      mediumCount == Max(1, MathRound(totalCount * 40, 100))
      hardCount == Max(1, MathRound(totalCount * (20 + complexityScore * 5), 100))
  IN  Repeat("easy", easyCount) \o Repeat("medium", mediumCount)
        \o Repeat("hard", hardCount)

\* Ratios in hundredths: easy 0.4 - 0.05 c, medium 0.4, hard the remainder.
generateDifficultyCurve(totalCount, complexityScore) ==
  LET easyRatio == 40 - complexityScore * 5
      mediumRatio == 40
      easyCount == Max(1, MathRound(totalCount * easyRatio, 100))
      mediumCount == Max(1, MathRound(totalCount * mediumRatio, 100))
      hardCount == totalCount - easyCount - mediumCount
  IN  Repeat("easy", easyCount) \o Repeat("medium", mediumCount)
        \o Repeat("hard", hardCount)

\* `${subtopicId}-q${index}-${timestamp}-${random}`
generateQuestionId(subtopicId, index, suffix) ==
  [subtopicId |-> subtopicId, index |-> index, suffix |-> suffix]

\* The option texts of a difficulty are named by their place in the
\* template list: option k of optionTemplates[difficulty].
OptionText(difficulty, k) == <<difficulty, k>>

generateMCQuestion(subtopicId, difficulty, index, shuffledIndices, suffix) ==
  LET correctOriginalIndex == 0
      correctAnswerIndex == shuffledIndices[correctOriginalIndex]
      options == [i \in 0 .. 3 |-> OptionText(difficulty, shuffledIndices[i])]
  IN  [id |-> generateQuestionId(subtopicId, index, suffix),
       type |-> "mcq",
       difficulty |-> difficulty,
       questionText |-> index % 4,
       topicId |-> subtopicId,
       options |-> options,
       correctAnswerIndex |-> correctAnswerIndex,
       acceptableAnswers |-> <<>>]

generateShortAnswerQuestion(subtopicId, difficulty, index, suffix) ==
  [id |-> generateQuestionId(subtopicId, index, suffix),
   type |-> "shortAnswer",
   difficulty |-> difficulty,
   questionText |-> index % 4,
   topicId |-> subtopicId,
   options |-> <<>>,
   correctAnswerIndex |-> -1,
   acceptableAnswers |-> <<[difficulty |-> difficulty, template |-> index % 4]>>]

\* The loop of generateQuestionSet: position i (0-based) is an MCQ while
\* i < distribution.mcq, numbered by mcqIndex = i; later positions are short
\* answers numbered from 0.
QuestionAt(subtopicId, difficultyCurve, distribution, i, draw) ==
  IF i < distribution.mcq
    THEN generateMCQuestion(subtopicId, difficultyCurve[i + 1], i,
                            draw.shuffle, <<draw.suffix, i>>)
    ELSE generateShortAnswerQuestion(subtopicId, difficultyCurve[i + 1],
                                     i - distribution.mcq, <<draw.suffix, i>>)

generateQuestionSet(cfg, draw) ==
  IF ~ConfigIsValid(cfg)
    THEN [error |-> "ZodError"]
    ELSE
      LET count == calculateQuestionCount(cfg.complexityScore, cfg.adaptationModifier)
          distribution == calculateDistribution(count, cfg.complexityScore)
          difficultyCurve == generateDifficultyCurve(count, cfg.complexityScore)
      IN  [error |-> None,
           count |-> count,
           distribution |-> distribution,
           difficultyCurve |-> difficultyCurve,
           questions |-> [k \in 1 .. count |->
                            QuestionAt(cfg.subtopicId, difficultyCurve,
                                       distribution, k - 1, draw)],
           subtopicId |-> cfg.subtopicId]

(***************************************************************************)
(* Strings: sequences of one-character strings.  The template texts of the *)
(* engine are long sentences; the model stands a short text in for each    *)
(* ("it core " and a word that names difficulty and template), which keeps *)
(* what the validators look at: words, their lengths, substrings, edits.   *)
(***************************************************************************)
LowerChar(c) == CASE c = "C" -> "c" [] c = "Z" -> "z" [] OTHER -> c

toLowerCase(str) == [i \in DOMAIN str |-> LowerChar(str[i])]

RECURSIVE trimStart(_)
trimStart(str) ==
  IF str # <<>> /\ Head(str) = " " THEN trimStart(Tail(str)) ELSE str

RECURSIVE trimEnd(_)
trimEnd(str) ==
  IF str # <<>> /\ str[Len(str)] = " "
    THEN trimEnd(SubSeq(str, 1, Len(str) - 1)) ELSE str

trim(str) == trimEnd(trimStart(str))

\* str.split(/\s+/) without the empty pieces (the callers keep only the
\* pieces longer than 3 characters).
RECURSIVE splitWords(_, _)
splitWords(str, word) ==
  IF str = <<>>
    THEN (IF word = <<>> THEN <<>> ELSE <<word>>)
    ELSE IF Head(str) = " "
      THEN (IF word = <<>> THEN <<>> ELSE <<word>>) \o splitWords(Tail(str), <<>>)
      ELSE splitWords(Tail(str), Append(word, Head(str)))

includes(str, sub) ==
  \E i \in 0 .. (Len(str) - Len(sub)) : SubSeq(str, i + 1, i + Len(sub)) = sub

Min3(a, b, c) == Min(a, Min(b, c))

\* One row of the matrix: row[j + 1] holds matrix[i][j].  `left` is the part
\* of the row already filled, `prev` the row above, ch = str2.charAt(i - 1).
RECURSIVE levenshteinRow(_, _, _, _)
levenshteinRow(prev, ch, str1, left) ==
  LET j == Len(left)
  IN  IF j > Len(str1) THEN left
      ELSE levenshteinRow(prev, ch, str1,
             Append(left,
               IF ch = str1[j] THEN prev[j]
               ELSE Min3(prev[j] + 1, left[j] + 1, prev[j + 1] + 1)))

RECURSIVE levenshteinRows(_, _, _, _)
levenshteinRows(prev, str1, str2, i) ==
  IF i > Len(str2) THEN prev
  ELSE levenshteinRows(levenshteinRow(prev, str2[i], str1, <<i>>), str1, str2, i + 1)

\* matrix[0][j] = j, matrix[i][0] = i, then row by row; the result is
\* matrix[str2.length][str1.length].
levenshteinDistance(str1, str2) ==
  levenshteinRows([j \in 1 .. (Len(str1) + 1) |-> j - 1], str1, str2, 1)[Len(str1) + 1]

\* calculateSimilarity(str1, str2) > 0.7, without the division.
similarityAbove70(str1, str2) ==
  LET longer == IF Len(str1) > Len(str2) THEN str1 ELSE str2
      shorter == IF Len(str1) > Len(str2) THEN str2 ELSE str1
  IN  IF Len(longer) = 0
        THEN TRUE
        ELSE 10 * (Len(longer) - levenshteinDistance(longer, shorter)) > 7 * Len(longer)

\* keywords.length > 0 && matched >= Math.ceil(keywords.length * 0.5)
keywordMatch(userAnswerLower, acceptableLower) ==
  LET words == splitWords(acceptableLower, <<>>)
      keywords == {i \in DOMAIN words : Len(words[i]) > 3}
      matchedKeywords == {i \in keywords : includes(userAnswerLower, words[i])}
  IN  /\ Cardinality(keywords) > 0
      /\ Cardinality(matchedKeywords) >= MathCeil(Cardinality(keywords), 2)

DifficultyWord(d) ==
  CASE d = "easy" -> <<"b", "a", "s", "e">>
    [] d = "medium" -> <<"f", "l", "o", "w">>
    [] d = "hard" -> <<"l", "o", "a", "d">>

DigitChar(n) == CASE n = 0 -> "0" [] n = 1 -> "1" [] n = 2 -> "2" [] n = 3 -> "3"

\* The text standing in for acceptableAnswerTemplates[difficulty][template].
AcceptableText(a) ==
  <<"i", "t", " ", "c", "o", "r", "e", " ">>
    \o DifficultyWord(a.difficulty) \o <<DigitChar(a.template)>>

\* An answer no template shares a keyword with.
UnrelatedText == <<"Z", "z", "z", "z">>

(***************************************************************************)
(* Answers: a number (MCQ option index) or a string (short answer)         *)
(***************************************************************************)
NumberAnswer(n) == [t |-> "number", v |-> n]
StringAnswer(str) == [t |-> "string", v |-> str]

\* String(selectedAnswer)
StringOf(answer) ==
  IF answer.t = "string" THEN answer.v ELSE <<DigitChar(answer.v)>>

\* The answer that is correct for a question as the client received it.
RightAnswer(question) ==
  IF question.type = "mcq"
    THEN NumberAnswer(question.correctAnswerIndex)
    ELSE StringAnswer(AcceptableText(question.acceptableAnswers[1]))

\* An answer that is wrong for it.
WrongAnswer(question) ==
  IF question.type = "mcq"
    THEN NumberAnswer((question.correctAnswerIndex + 1) % 4)
    ELSE StringAnswer(UnrelatedText)

\* Bound: how many questions of a run the user answers wrongly.
MaxWrong == 1

WrongSets(count) == {w \in SUBSET (1 .. count) : Cardinality(w) <= MaxWrong}

\* The answers of a user who has answered every question of the set (the
\* screen offers Submit only then), those at the positions `wrong` wrongly.
ClientAnswers(questions, wrong) ==
  [k \in DOMAIN questions |->
     [questionId |-> questions[k].id,
      selectedAnswer |-> IF k \in wrong THEN WrongAnswer(questions[k])
                                        ELSE RightAnswer(questions[k])]]

(***************************************************************************)
(* Database (Prisma): tables Subtopic, User, Attempt, UserProgress         *)
(***************************************************************************)
\* prisma/seed: the first topic and its three subtopics, in creation (id)
\* order.  Subtopic.status is a column of the subtopic, not of a user.
Topic1 == "t1"

Subtopic ==
  <<[id |-> "s1", topicId |-> Topic1, complexityScore |-> 1, status |-> "available"],
    [id |-> "s2", topicId |-> Topic1, complexityScore |-> 1, status |-> "locked"],
    [id |-> "s3", topicId |-> Topic1, complexityScore |-> 2, status |-> "locked"]>>

SubtopicIds == {Subtopic[i].id : i \in DOMAIN Subtopic}

\* An id no subtopic has.
UnknownSubtopic == "s9"

\* prisma.subtopic.findUnique({ where: { id } })
subtopicFindUnique(id) ==
  IF id \in SubtopicIds
    THEN CHOOSE row \in Range(Subtopic) : row.id = id
    ELSE Nil

\* The signed-in user of the model; a request without a session has userId None.
Users == {"u1"}
Sessions == Users \cup {None}

\* getUserIdFromSession
getUserIdFromSession(session) == session

\* Bound: Attempt rows the model lets the table grow to.
MaxAttempts == 1

\* attempt.create: the new row gets the next id.  The JSON columns
\* (questionsJson, answersJson, scoresJson) and timeSpentSeconds are not kept.
attemptCreate(table, userId, subtopicId, totalScore) ==
  Append(table, [id |-> Len(table) + 1, userId |-> userId,
                 subtopicId |-> subtopicId, totalScore |-> totalScore])

HasProgress(table, userId, subtopicId) == <<userId, subtopicId>> \in DOMAIN table

\* A UserProgress row before its columns are given: exitPointJson and
\* completedAt are null.
NewProgressRow == [status |-> None, currentPhase |-> None, exitPoint |-> Nil,
                   completedAt |-> FALSE]

\* The columns `data` names take its values, the others keep theirs.
writeColumns(row, data) ==
  [f \in DOMAIN row |-> IF f \in DOMAIN data THEN data[f] ELSE row[f]]

\* userProgress.upsert({ where, update, create }): `update` is written over
\* the existing row, or a row with the columns of `create` is inserted.
progressUpsert(table, userId, subtopicId, update, create) ==
  LET key == <<userId, subtopicId>>
  IN  [k \in DOMAIN table \cup {key} |->
         IF k = key
           THEN (IF key \in DOMAIN table THEN writeColumns(table[key], update)
                 ELSE writeColumns(NewProgressRow, create))
           ELSE table[k]]

\* Outcomes of the two writes of a submit.
WriteOutcomes == {"ok", "createFails", "upsertFails"}

\* prisma.$transaction(async (tx) => { create; upsert }): both writes or none.
prismaTransaction(before, afterCreate, afterUpsert, writes) ==
  IF writes = "ok" THEN afterUpsert ELSE before

(***************************************************************************)
(* Short-answer validation by the AI service (src/lib/gemini/validation.ts)*)
(***************************************************************************)
\* What the generateContent call does: its text contains TRUE, contains
\* FALSE, contains neither, or the call throws.
GeminiOutcomes == {"TRUE", "FALSE", "AMBIGUOUS", "ERROR"}

\* validateShortAnswer: "true", "false", or "throws" (the Zod check of an
\* empty answer or empty keyword list, or a failed call).
validateShortAnswer(userAnswer, acceptableKeywords, gemini) ==
  IF Len(userAnswer) < 1 \/ Len(acceptableKeywords) < 1 THEN "throws"
  ELSE IF gemini = "ERROR" THEN "throws"
  ELSE IF gemini = "TRUE" THEN "true"
  ELSE "false"

(***************************************************************************)
(* Checkpoint module router: generate and submit                           *)
(***************************************************************************)
\* The fallback of validateAnswer: for some acceptable answer, half of its
\* keywords are in the user's answer, or the two strings are similar.
localHeuristic(userAnswer, acceptableAnswers) ==
  LET userAnswerLower == trim(toLowerCase(userAnswer))
  IN  \E i \in DOMAIN acceptableAnswers :
        LET acceptableLower == toLowerCase(AcceptableText(acceptableAnswers[i]))
        IN  \/ keywordMatch(userAnswerLower, acceptableLower)
            \/ /\ Len(userAnswerLower) > 0
               /\ similarityAbove70(userAnswerLower, acceptableLower)

\* The same function with a catch block that computes nothing: a failed
\* call leaves the answer incorrect.
validateAnswer_NoFallback(question, selectedAnswer, gemini) ==
  IF question.type = "mcq"
    THEN [isCorrect |-> selectedAnswer = NumberAnswer(question.correctAnswerIndex),
          geminiValidated |-> FALSE]
    ELSE
      LET userAnswer == StringOf(selectedAnswer)
          verdict == validateShortAnswer(userAnswer, question.acceptableAnswers, gemini)
      IN  IF verdict # "throws"
            THEN [isCorrect |-> verdict = "true", geminiValidated |-> TRUE]
            ELSE [isCorrect |-> FALSE, geminiValidated |-> FALSE]

\* validateAnswer of the server: a ScoreEntry.
validateAnswer(question, selectedAnswer, gemini) ==
  IF question.type = "mcq"
    THEN [isCorrect |-> selectedAnswer = NumberAnswer(question.correctAnswerIndex),
          geminiValidated |-> FALSE]
    ELSE
      LET userAnswer == StringOf(selectedAnswer)
          verdict == validateShortAnswer(userAnswer, question.acceptableAnswers, gemini)
      IN  IF verdict # "throws"
            THEN [isCorrect |-> verdict = "true", geminiValidated |-> TRUE]
            ELSE [isCorrect |-> localHeuristic(userAnswer, question.acceptableAnswers),
                  geminiValidated |-> FALSE]

getDifficultyCategory(difficulty) ==
  CASE difficulty = "easy" -> "foundation"
    [] difficulty = "medium" -> "application"
    [] difficulty = "hard" -> "synthesis"

ScoreCategories == {"foundation", "application", "synthesis"}

\* questionMap.get(id): the question of the regenerated set with that id
\* (the last one, were two to share an id), or Nil.
questionMapGet(questions, id) ==
  LET hits == {k \in DOMAIN questions : questions[k].id = id}
  IN  IF hits = {} THEN Nil
      ELSE questions[CHOOSE k \in hits : \A h \in hits : h <= k]

\* The loop over the submitted answers: what each answer was graded as, with
\* the ScoreEntry of the answer and the question it was matched with.  An
\* answer whose questionId is not in the map is marked incorrect and counted
\* in no category.
gradeAnswers(questions, answers, gemini) ==
  [k \in DOMAIN answers |->
     LET question == questionMapGet(questions, answers[k].questionId)
     IN  IF question = Nil
           THEN [questionId |-> answers[k].questionId, found |-> FALSE,
                 category |-> None, isCorrect |-> FALSE, geminiValidated |-> FALSE,
                 type |-> None, acceptableAnswers |-> <<>>]
           ELSE
             LET scoreEntry == CHOOSE e \in {validateAnswer(question,
                                               answers[k].selectedAnswer, gemini)} : TRUE
             IN  [questionId |-> answers[k].questionId, found |-> TRUE,
                  category |-> getDifficultyCategory(question.difficulty),
                  isCorrect |-> scoreEntry.isCorrect,
                  geminiValidated |-> scoreEntry.geminiValidated,
                  type |-> question.type,
                  acceptableAnswers |-> question.acceptableAnswers]]

\* categoryScoresInternal after the loop.
categoryScores(graded) ==
  [c \in ScoreCategories |->
     [correct |-> Cardinality({k \in DOMAIN graded :
                     graded[k].found /\ graded[k].category = c /\ graded[k].isCorrect}),
      total |-> Cardinality({k \in DOMAIN graded :
                     graded[k].found /\ graded[k].category = c})]]

\* Mutant: the weights of foundation and application are exchanged.
weightedScore_WeightsSwapped(cat) ==
  LET ft == Max(cat["foundation"].total, 1)
      at == Max(cat["application"].total, 1)
      st == Max(cat["synthesis"].total, 1)
  IN  MathRound(35 * cat["foundation"].correct * at * st
                  + 40 * cat["application"].correct * ft * st
                  + 25 * cat["synthesis"].correct * ft * at,
                ft * at * st)

\* Math.round(foundationScore * 0.4 + applicationScore * 0.35 +
\* synthesisScore * 0.25), each score being correct / total * 100, or 0 for
\* an empty category: the sum over the common denominator, then rounded.
weightedScore(cat) ==
  LET ft == Max(cat["foundation"].total, 1)
      at == Max(cat["application"].total, 1)
      st == Max(cat["synthesis"].total, 1)
  IN  MathRound(40 * cat["foundation"].correct * at * st
                  + 35 * cat["application"].correct * ft * st
                  + 25 * cat["synthesis"].correct * ft * at,
                ft * at * st)

\* Math.round(score) of one category, for the breakdown.
categoryPercent(c) == IF c.total > 0 THEN MathRound(100 * c.correct, c.total) ELSE 0

PassThreshold == 70

\* The data of the two upserts of submit (update and create carry the same
\* columns): status, phase and exit point by canProgress.
submitProgressData(totalScore, canProgress) ==
  IF canProgress
    THEN [status |-> "completed", currentPhase |-> "results",
          exitPoint |-> [type |-> "checkpoint", score |-> totalScore, passed |-> TRUE],
          completedAt |-> TRUE]
    ELSE [status |-> "in_progress", currentPhase |-> "checkpoint",
          exitPoint |-> [type |-> "checkpoint", score |-> totalScore, passed |-> FALSE]]

\* checkpoint.generate (query): the screen keeps the returned set.
CheckpointGenerate(c, m, subtopicId, draw) ==
  LET cfg == [subtopicId |-> subtopicId, complexityScore |-> c, adaptationModifier |-> m]
      set == generateQuestionSet(cfg, draw)
  IN  /\ request' = [proc |-> "checkpoint.generate", input |-> cfg]
      /\ response' = [error |-> set.error]
      /\ clientQuestions' = IF set.error = None THEN set ELSE clientQuestions
      /\ UNCHANGED <<genVars, uiVars, dbVars>>

\* checkpoint.submit (mutation) as a function of the tables: the tables it
\* leaves and the response.
submit(before, session, subtopicId, answers, draw, gemini, writes) ==
  LET userId == getUserIdFromSession(session)
      subtopic == subtopicFindUnique(subtopicId)
  IN
  IF userId = None
    THEN [attempt |-> before.attempt, userProgress |-> before.userProgress,
          response |-> [error |-> "UNAUTHORIZED"]]
  ELSE IF subtopic = Nil
    THEN [attempt |-> before.attempt, userProgress |-> before.userProgress,
          response |-> [error |-> "NOT_FOUND"]]
  ELSE
    LET questionSet == generateQuestionSet(
                         [subtopicId |-> subtopicId,
                          complexityScore |-> subtopic.complexityScore,
                          adaptationModifier |-> 1], draw)
        graded == gradeAnswers(questionSet.questions, answers, gemini)
        cat == categoryScores(graded)
        totalScore == weightedScore(cat)
        canProgress == totalScore >= PassThreshold
        afterCreate == [before EXCEPT
                          !.attempt = attemptCreate(before.attempt, userId,
                                                    subtopicId, totalScore)]
        afterUpsert == [afterCreate EXCEPT
                          !.userProgress =
                            progressUpsert(before.userProgress, userId, subtopicId,
                              submitProgressData(totalScore, canProgress),
                              submitProgressData(totalScore, canProgress))]
        after == prismaTransaction(before, afterCreate, afterUpsert, writes)
    IN  [attempt |-> after.attempt,
         userProgress |-> after.userProgress,
         response |->
           IF writes = "ok"
             THEN [error |-> None,
                   score |-> totalScore,
                   breakdown |-> [c \in ScoreCategories |-> categoryPercent(cat[c])],
                   canProgress |-> canProgress,
                   attemptId |-> Len(after.attempt),
                   graded |-> graded]
             ELSE [error |-> "INTERNAL_SERVER_ERROR"]]

\* A call of checkpoint.submit.
CheckpointSubmit(session, subtopicId, answers, draw, gemini, writes) ==
  \E after \in {submit([attempt |-> attempt, userProgress |-> userProgress],
                        session, subtopicId, answers, draw, gemini, writes)} :
      /\ request' = [proc |-> "checkpoint.submit",
                     input |-> [subtopicId |-> subtopicId, answers |-> answers,
                                session |-> session],
                     gemini |-> gemini]
      /\ attempt' = after.attempt
      /\ userProgress' = after.userProgress
      /\ response' = after.response
      /\ UNCHANGED <<genVars, uiVars, clientQuestions, user>>

(***************************************************************************)
(* SpecCheckpoint: a signed-in user loads a checkpoint and submits it to   *)
(* checkpoint.submit                                                       *)
(***************************************************************************)
\* CheckpointModule renders the screen with its default configuration.
DEFAULT_COMPLEXITY_SCORE == 2
DEFAULT_ADAPTATION_MODIFIER == 1

InitDb ==
  /\ config = Nil
  /\ result = Nil
  /\ clientQuestions = Nil
  /\ attempt = <<>>
  /\ userProgress = <<>>
  /\ user = Users
  /\ request = Nil
  /\ response = Nil
  /\ InitUi

LoadCheckpoint ==
  \E subtopicId \in SubtopicIds, draw \in RouterDraws :
    CheckpointGenerate(DEFAULT_COMPLEXITY_SCORE, DEFAULT_ADAPTATION_MODIFIER,
                       subtopicId, draw)

\* The user submits the loaded set; both writes succeed.
SubmitAnswers ==
  /\ clientQuestions # Nil
  /\ Len(attempt) < MaxAttempts
  /\ \E u \in Users, wrong \in WrongSets(clientQuestions.count),
        draw \in RouterDraws, gemini \in GeminiOutcomes :
       CheckpointSubmit(u, clientQuestions.subtopicId,
                        ClientAnswers(clientQuestions.questions, wrong),
                        draw, gemini, "ok")

\* The same call when one of the two writes fails.
SubmitWriteFails ==
  /\ clientQuestions # Nil
  /\ \E u \in Users, wrong \in {{}}, draw \in RouterDraws,
        writes \in WriteOutcomes \ {"ok"} :
       CheckpointSubmit(u, clientQuestions.subtopicId,
                        ClientAnswers(clientQuestions.questions, wrong),
                        draw, "TRUE", writes)

\* The call without a session.
SubmitUnauthenticated ==
  /\ clientQuestions # Nil
  /\ \E draw \in RouterDraws :
       CheckpointSubmit(None, clientQuestions.subtopicId,
                        ClientAnswers(clientQuestions.questions, {}),
                        draw, "TRUE", "ok")

\* The call for a subtopic that does not exist.
SubmitUnknownSubtopic ==
  /\ clientQuestions # Nil
  /\ \E u \in Users, draw \in RouterDraws :
       CheckpointSubmit(u, UnknownSubtopic,
                        ClientAnswers(clientQuestions.questions, {}),
                        draw, "TRUE", "ok")

NextCheckpoint ==
  \/ LoadCheckpoint
  \/ SubmitAnswers
  \/ SubmitWriteFails
  \/ SubmitUnauthenticated
  \/ SubmitUnknownSubtopic

SpecCheckpoint == InitDb /\ [][NextCheckpoint]_vars

SubmitReturned ==
  /\ request # Nil /\ request.proc = "checkpoint.submit"
  /\ response.error = None

\* Correct and counted answers of one bucket, read off the graded answers.
BucketCorrect(graded, c) ==
  Cardinality({k \in DOMAIN graded :
                 graded[k].found /\ graded[k].category = c /\ graded[k].isCorrect})
BucketTotal(graded, c) ==
  Cardinality({k \in DOMAIN graded : graded[k].found /\ graded[k].category = c})

\* score = Math.round(0.4 F + 0.35 A + 0.25 S), stated without the rounding
\* operator: score - 1/2 <= 0.4 F + 0.35 A + 0.25 S < score + 1/2, F, A and S
\* being the percentage of correct answers of each bucket of g (0 for an
\* empty bucket).
IsWeightedScore(g, score) ==
  LET ft == IF BucketTotal(g, "foundation") = 0 THEN 1 ELSE BucketTotal(g, "foundation")
      at == IF BucketTotal(g, "application") = 0 THEN 1 ELSE BucketTotal(g, "application")
      st == IF BucketTotal(g, "synthesis") = 0 THEN 1 ELSE BucketTotal(g, "synthesis")
      \* 0.4 F + 0.35 A + 0.25 S = num / den
      num == 40 * BucketCorrect(g, "foundation") * at * st
               + 35 * BucketCorrect(g, "application") * ft * st
               + 25 * BucketCorrect(g, "synthesis") * ft * at
      den == ft * at * st
  IN  /\ 2 * den * score <= 2 * num + den
      /\ 2 * num + den < 2 * den * (score + 1)

\* C1: the score checkpoint.submit returns is 0.4 F + 0.35 A + 0.25 S rounded
\* to the nearest integer (halves up), F, A and S being the percentage of
\* correct answers in the foundation, application and synthesis bucket (0 for
\* an empty bucket); it lies in 0..100, canProgress is score >= 70, and the
\* Attempt row written holds the same score.
C1_WeightedScore ==
  SubmitReturned =>
    /\ IsWeightedScore(response.graded, response.score)
    /\ response.score >= 0 /\ response.score <= 100
    /\ response.canProgress = (response.score >= 70)
    /\ attempt[response.attemptId].totalScore = response.score

\* A submit whose seven answers were all counted, one hard question wrong:
\* 0.4 * 100 + 0.35 * 100 + 0.25 * 50 = 87.5, returned as 88.
C1_Witness ==
  /\ SubmitReturned
  /\ \A k \in DOMAIN response.graded : response.graded[k].found
  /\ BucketTotal(response.graded, "foundation") = 2
  /\ BucketTotal(response.graded, "application") = 3
  /\ BucketTotal(response.graded, "synthesis") = 2
  /\ BucketCorrect(response.graded, "synthesis") = 1
  /\ response.score = 88
  /\ response.canProgress

\* The user answered every question of the loaded set with the answer that
\* is correct for it.
AllAnsweredRight ==
  /\ clientQuestions # Nil
  /\ request.input.answers = ClientAnswers(clientQuestions.questions, {})

\* C3: a submit that answers every question the client received correctly
\* has every multiple-choice answer counted correct and, the short answers
\* the server looked at being accepted, scores 100 with canProgress true.
C3_AllRightScores100 ==
  (SubmitReturned /\ AllAnsweredRight) =>
    LET g == response.graded
        q == clientQuestions.questions
    IN  /\ \A k \in DOMAIN g : q[k].type = "mcq" => g[k].isCorrect
        /\ (\A k \in DOMAIN g :
              (q[k].type = "shortAnswer" /\ g[k].found) => g[k].isCorrect)
             => (response.score = 100 /\ response.canProgress)

\* The verdict of the local heuristic on an answer: for some acceptable
\* answer, at least half of its words longer than 3 characters are
\* substrings of the answer, or the edit-distance similarity is above 0.7.
HeuristicVerdict(answer, acceptableAnswers) ==
  LET given == trim(toLowerCase(StringOf(answer)))
  IN  \E i \in DOMAIN acceptableAnswers :
        LET expected == toLowerCase(AcceptableText(acceptableAnswers[i]))
        IN  \/ keywordMatch(given, expected)
            \/ (Len(given) > 0 /\ similarityAbove70(given, expected))

\* C13: when the semantic-validation call throws during checkpoint.submit, the
\* submit returns normally and every short answer it validated is correct
\* exactly when the local heuristic accepts it (and is not marked as
\* validated by the AI).
C13_FallbackHeuristic ==
  (request # Nil /\ request.proc = "checkpoint.submit" /\ request.gemini = "ERROR") =>
    /\ response.error = None
    /\ \A k \in DOMAIN response.graded :
         (response.graded[k].found /\ response.graded[k].type = "shortAnswer") =>
           /\ response.graded[k].isCorrect =
                HeuristicVerdict(request.input.answers[k].selectedAnswer,
                                 response.graded[k].acceptableAnswers)
           /\ ~response.graded[k].geminiValidated

\* The call threw, and of the short answers validated one was accepted by the
\* heuristic and one rejected.
C13_Witness ==
  /\ request # Nil /\ request.proc = "checkpoint.submit" /\ request.gemini = "ERROR"
  /\ response.error = None
  /\ \E k, j \in DOMAIN response.graded :
       /\ response.graded[k].found /\ response.graded[k].type = "shortAnswer"
       /\ response.graded[k].isCorrect
       /\ response.graded[j].found /\ response.graded[j].type = "shortAnswer"
       /\ ~response.graded[j].isCorrect

(***************************************************************************)
(* SpecGen: generateQuestionSet called with any configuration              *)
(***************************************************************************)
\* Arguments tried: the valid range of each field and one value on each side.
ComplexityInputs == 0 .. 5
ModifierInputs == -1 .. 3

GenSubtopic == "s1"

InitIdle ==
  /\ clientQuestions = Nil
  /\ attempt = <<>>
  /\ userProgress = <<>>
  /\ user = {}
  /\ request = Nil
  /\ response = Nil
  /\ InitUi

InitGen ==
  /\ config = Nil
  /\ result = Nil
  /\ InitIdle

GenerateQuestionSet ==
  \E c \in ComplexityInputs, m \in ModifierInputs, draw \in RandomDraws :
    LET cfg == [subtopicId |-> GenSubtopic, complexityScore |-> c,
                adaptationModifier |-> m]
    IN  /\ config' = cfg
        /\ result' = generateQuestionSet(cfg, draw)
        /\ UNCHANGED <<dbVars, rpcVars, uiVars>>

NextGen == GenerateQuestionSet

SpecGen == InitGen /\ [][NextGen]_vars

Returned == result # Nil /\ result.error = None

\* C8: for every valid configuration the returned count is
\* min(5 + (complexityScore - 1) + adaptationModifier, 10), lies in 5..10,
\* and exactly that many questions are returned.
C8_QuestionCount ==
  (config # Nil /\ ConfigIsValid(config)) =>
    LET sum == 4 + config.complexityScore + config.adaptationModifier
    IN  /\ Returned
        /\ result.count = (IF sum > 10 THEN 10 ELSE sum)
        /\ result.count >= 5 /\ result.count <= 10
        /\ Len(result.questions) = result.count

\* The spec's example: complexityScore 4, adaptationModifier 2 gives 10.
C8_Witness ==
  /\ Returned
  /\ config.complexityScore = 4 /\ config.adaptationModifier = 2
  /\ result.count = 10 /\ Len(result.questions) = 10

\* C9: mcq is count * 0.7 (complexity <= 2) or count * 0.5 rounded to the
\* nearest integer, halves up; shortAnswer is the rest; the set holds exactly
\* mcq multiple-choice and shortAnswer short-answer questions.
C9_Distribution ==
  Returned =>
    LET tenths == IF config.complexityScore <= 2 THEN 7 ELSE 5
        mcq == result.distribution.mcq
        sa == result.distribution.shortAnswer
        ofType(t) == {k \in DOMAIN result.questions : result.questions[k].type = t}
    IN  /\ 10 * mcq - 5 <= tenths * result.count
        /\ tenths * result.count < 10 * mcq + 5
        /\ sa = result.count - mcq
        /\ mcq + sa = result.count
        /\ Cardinality(ofType("mcq")) = mcq
        /\ Cardinality(ofType("shortAnswer")) = sa

\* The spec's example: complexityScore 1, adaptationModifier 0 gives 5
\* questions, 4 multiple choice and 1 short answer.
C9_Witness ==
  /\ Returned
  /\ config.complexityScore = 1 /\ config.adaptationModifier = 0
  /\ result.count = 5
  /\ result.distribution = [mcq |-> 4, shortAnswer |-> 1]
  /\ result.questions[4].type = "mcq" /\ result.questions[5].type = "shortAnswer"

\* C10: the difficulty curve has count entries, never steps down in rank, and
\* question i has the difficulty of entry i.
C10_DifficultyCurve ==
  Returned =>
    LET curve == result.difficultyCurve
    IN  /\ Len(curve) = result.count
        /\ \A i, j \in DOMAIN curve :
              i < j => DifficultyRank(curve[i]) <= DifficultyRank(curve[j])
        /\ \A i \in DOMAIN result.questions :
              i \in DOMAIN curve /\ result.questions[i].difficulty = curve[i]

\* A returned set whose curve uses all three levels.
C10_Witness ==
  /\ Returned
  /\ Len(result.difficultyCurve) = result.count
  /\ Range(result.difficultyCurve) = DifficultyLevel
  /\ result.questions[1].difficulty = "easy"
  /\ result.questions[result.count].difficulty = "hard"

(***************************************************************************)
(* Adaptive engine (src/lib/adaptive-engine/calculator.ts)                 *)
(*                                                                         *)
(* Scores are kept in hundredths (1.5 is 150), the weights in hundredths   *)
(* (0.3 is 30), so the modifier is kept in ten-thousandths (1.65 is        *)
(* 16500).  Times are milliseconds.                                        *)
(***************************************************************************)
speedScore(scrollSpeed) ==
  IF scrollSpeed > 150 THEN 200
  ELSE IF scrollSpeed > 100 THEN 150
  ELSE IF scrollSpeed > 50 THEN 100
  ELSE IF scrollSpeed > 30 THEN 50
  ELSE 0

pauseScore(pausePoints) ==
  IF pausePoints <= 2 THEN 150
  ELSE IF pausePoints <= 5 THEN 100
  ELSE IF pausePoints <= 10 THEN 50
  ELSE 0

revisitScore(revisitCount) ==
  IF revisitCount = 0 THEN 150
  ELSE IF revisitCount <= 2 THEN 100
  ELSE IF revisitCount <= 4 THEN 50
  ELSE 0

\* ratio = timeOnPage / (baseComplexity * 60 * 1000), compared with 0.5, 1,
\* 1.5 and 2; the score stays 1 when timeOnPage is 0.
timeScore(timeOnPage, baseComplexity) ==
  LET expectedTime == baseComplexity * 60 * 1000
  IN  IF ~(timeOnPage > 0) THEN 100
      ELSE IF 2 * timeOnPage < expectedTime THEN 150
      ELSE IF timeOnPage < expectedTime THEN 125
      ELSE IF 2 * timeOnPage <= 3 * expectedTime THEN 100
      ELSE IF timeOnPage <= 2 * expectedTime THEN 50
      ELSE 25

\* speed 30%, pauses 25%, revisits 25%, time 20%
rawModifier(speed, pause, revisit, time) ==
  (speed * 30) + (pause * 25) + (revisit * 25) + (time * 20)

\* The score tuples whose weighted sum is an odd multiple of 0.005 and whose
\* IEEE-754 double sum, times 100, falls just below the half (0.575 * 100 is
\* 57.49999999999999): Math.round rounds these down.
SumBelowHalf ==
  {<<0, 0, 150, 100>>, <<0, 50, 100, 100>>, <<0, 100, 50, 100>>,
   <<0, 150, 0, 100>>, <<50, 100, 150, 125>>, <<50, 150, 100, 125>>,
   <<150, 0, 50, 100>>, <<150, 0, 150, 100>>, <<150, 50, 0, 100>>,
   <<150, 50, 100, 100>>, <<150, 100, 50, 100>>, <<150, 100, 150, 100>>,
   <<150, 150, 0, 100>>, <<150, 150, 100, 100>>, <<200, 0, 50, 150>>,
   <<200, 0, 150, 25>>, <<200, 0, 150, 150>>, <<200, 50, 0, 150>>,
   <<200, 50, 100, 25>>, <<200, 50, 100, 150>>, <<200, 100, 50, 25>>,
   <<200, 100, 50, 150>>, <<200, 150, 0, 25>>, <<200, 150, 0, 150>>}

\* Math.round(modifier * 100) / 100, in ten-thousandths.
roundTo2Decimals(modifier, scores) ==
  IF scores \in SumBelowHalf
    THEN (modifier \div 100) * 100
    ELSE MathRound(modifier, 100) * 100

\* The same function returning the modifier as computed, not rounded.
calculateComplexityAdjustment_Unrounded(signals, baseComplexity) ==
  LET raw == rawModifier(speedScore(signals.scrollSpeed), pauseScore(signals.pausePoints),
                         revisitScore(signals.revisitCount),
                         timeScore(signals.timeOnPage, baseComplexity))
      modifier == Min(20000, Max(0, raw))
      baseQuestions == Max(3, Min(10, MathRound(baseComplexity, 2)))
      estimatedQuestions == MathRound(baseQuestions * (500000 + modifier * 75), 1000000)
  IN  [modifier |-> modifier,
       difficulty |-> IF modifier >= 15000 THEN "easy"
                      ELSE IF modifier >= 7500 THEN "normal" ELSE "hard",
       estimatedQuestions |-> Max(3, Min(10, estimatedQuestions))]

calculateComplexityAdjustment(signals, baseComplexity) ==
  LET scores == <<speedScore(signals.scrollSpeed), pauseScore(signals.pausePoints),
                  revisitScore(signals.revisitCount),
                  timeScore(signals.timeOnPage, baseComplexity)>>
      raw == rawModifier(scores[1], scores[2], scores[3], scores[4])
      \* Math.min(2, Math.max(0, rawModifier))
      modifier == Min(20000, Max(0, raw))
      baseQuestions == Max(3, Min(10, MathRound(baseComplexity, 2)))
      \* Math.round(baseQuestions * (0.5 + modifier * 0.75))
      estimatedQuestions == MathRound(baseQuestions * (500000 + modifier * 75), 1000000)
  IN  [modifier |-> roundTo2Decimals(modifier, scores),
       difficulty |-> IF modifier >= 15000 THEN "easy"
                      ELSE IF modifier >= 7500 THEN "normal" ELSE "hard",
       estimatedQuestions |-> Max(3, Min(10, estimatedQuestions))]

getDefaultSignals ==
  [scrollSpeed |-> 0, pausePoints |-> 0, revisitCount |-> 0, timeOnPage |-> 0]

(***************************************************************************)
(* SpecAdaptive: calculateComplexityAdjustment called with any signals     *)
(***************************************************************************)
\* Signals tried: each threshold of the source, the value after it, and the
\* ends; times around 0.5, 1, 1.5 and 2 times the expected time of each
\* base complexity.
ScrollSpeedInputs == {0, 30, 31, 50, 51, 100, 101, 150, 151, 200}
PausePointInputs == {0, 2, 3, 5, 6, 10, 11}
RevisitCountInputs == {0, 1, 2, 3, 4, 5}
TimeOnPageInputs ==
  {0, 1} \cup UNION {{(b * 30000) - 1, b * 30000, (b * 60000) - 1, b * 60000,
                      b * 90000, (b * 90000) + 1, b * 120000, (b * 120000) + 1}
                       : b \in 1 .. 4}
BaseComplexityInputs == 1 .. 4

SignalInputs ==
  [scrollSpeed : ScrollSpeedInputs, pausePoints : PausePointInputs,
   revisitCount : RevisitCountInputs, timeOnPage : TimeOnPageInputs]

InitAdaptive ==
  /\ config \in [signals : SignalInputs, baseComplexity : BaseComplexityInputs]
  /\ result = Nil
  /\ InitIdle

CalculateComplexityAdjustment ==
  /\ result = Nil
  /\ result' = calculateComplexityAdjustment(config.signals, config.baseComplexity)
  /\ UNCHANGED <<config, dbVars, rpcVars, uiVars>>

NextAdaptive == CalculateComplexityAdjustment

SpecAdaptive == InitAdaptive /\ [][NextAdaptive]_vars

MaxComfort(cfg) ==
  /\ cfg.signals.scrollSpeed = 200
  /\ cfg.signals.pausePoints = 0
  /\ cfg.signals.revisitCount = 0
  /\ cfg.signals.timeOnPage = 1

\* C12: with every signal at maximum comfort (scrollSpeed 200, no pauses, no
\* revisits, a tiny time on page) the modifier is 2.0 to one decimal (at
\* least 1.95) and the difficulty is easy.
C12_MaxComfortModifier ==
  (result # Nil /\ MaxComfort(config)) =>
    /\ result.modifier >= 19500
    /\ result.difficulty = "easy"

(***************************************************************************)
(* Application router (src/lib/trpc/router.ts), served at /api/rpc, and    *)
(* the checkpoint screen that calls it                                     *)
(***************************************************************************)
DemoUser == "demo-user"
\* "no-attempt-" + Date.now(): an id that no Attempt row has.
NoAttempt == 0

\* userId || "demo-user"
effectiveUserId(session) ==
  IF getUserIdFromSession(session) = None THEN DemoUser ELSE getUserIdFromSession(session)

\* validateAnswer of the client (useCheckpointState): an option index must
\* equal correctAnswerIndex; a short answer must hold half of the keywords
\* of some acceptable answer or be similar to the first one.
clientValidateAnswer(question, answer) ==
  IF question.type = "mcq"
    THEN answer = NumberAnswer(question.correctAnswerIndex)
    ELSE
      LET userAnswerLower == trim(toLowerCase(StringOf(answer)))
          acceptable == question.acceptableAnswers
      IN  \/ \E i \in DOMAIN acceptable :
                keywordMatch(userAnswerLower, toLowerCase(AcceptableText(acceptable[i])))
          \/ /\ Len(userAnswerLower) > 0
             /\ Len(acceptable) > 0
             /\ similarityAbove70(userAnswerLower,
                                  toLowerCase(AcceptableText(acceptable[1])))

\* The payload handleSubmitCheckpoint builds: every answer with the flag
\* the client computed for it (false when the question is not found).
submitPayload(questions, answers) ==
  [k \in DOMAIN answers |->
     LET hits == {j \in DOMAIN questions : questions[j].id = answers[k].questionId}
     IN  [questionId |-> answers[k].questionId,
          selectedAnswer |-> answers[k].selectedAnswer,
          isCorrect |->
            IF hits = {} THEN FALSE
            ELSE clientValidateAnswer(
                   questions[CHOOSE j \in hits : \A h \in hits : j <= h],
                   answers[k].selectedAnswer)]]

\* Math.round((correctCount / totalAnswered) * 100), 0 without answers.
flagScore(answers) ==
  LET correctCount == Cardinality({k \in DOMAIN answers : answers[k].isCorrect})
      totalAnswered == Len(answers)
  IN  IF totalAnswered > 0 THEN MathRound(100 * correctCount, totalAnswered) ELSE 0

\* The data of the upserts of the application router.
completedData ==
  [status |-> "completed", currentPhase |-> "results", completedAt |-> TRUE]
inProgressData(phase) ==
  [status |-> "in_progress", currentPhase |-> phase]
exitPointData(phase, exitPoint) ==
  [status |-> "in_progress", currentPhase |-> phase, exitPoint |-> exitPoint]

\* What can go wrong in submitCheckpoint: the creation of the demo user,
\* attempt.create, or the upsert of UserProgress.
SubmitOutcomes == WriteOutcomes \cup {"userCreateFails"}

\* submitCheckpoint (mutation) as a function of the tables: the tables it
\* leaves and the response.  The writes are separate statements: the demo
\* user, then the Attempt (a failure is answered with success and a
\* placeholder id), then, for a signed-in user, the UserProgress row.
submitCheckpoint(before, session, subtopicId, answers, writes) ==
  LET userId == getUserIdFromSession(session)
      subtopic == subtopicFindUnique(subtopicId)
      totalScore == flagScore(answers)
      canProgress == totalScore >= PassThreshold
      userAfter == IF userId = None /\ DemoUser \notin before.user
                      /\ writes # "userCreateFails"
                     THEN before.user \cup {DemoUser} ELSE before.user
      created == writes # "createFails" /\ effectiveUserId(session) \in userAfter
      attemptAfter == IF created
                        THEN attemptCreate(before.attempt, effectiveUserId(session),
                                           subtopicId, totalScore)
                        ELSE before.attempt
      upserted == created /\ userId # None /\ writes # "upsertFails"
      progressAfter ==
        IF ~upserted THEN before.userProgress
        ELSE IF canProgress
          THEN progressUpsert(before.userProgress, userId, subtopicId,
                 completedData, completedData)
          ELSE progressUpsert(before.userProgress, userId, subtopicId,
                 inProgressData("checkpoint"), inProgressData("checkpoint"))
  IN
  IF subtopic = Nil
    THEN [before EXCEPT !.response = [error |-> "Subtopic not found"]]
    ELSE [user |-> userAfter,
          attempt |-> attemptAfter,
          userProgress |-> progressAfter,
          response |->
            IF ~created
              THEN [error |-> None, success |-> TRUE, totalScore |-> totalScore,
                    canProgress |-> canProgress, attemptId |-> NoAttempt]
            ELSE IF userId # None /\ writes = "upsertFails"
              THEN [error |-> "INTERNAL_SERVER_ERROR"]
            ELSE [error |-> None, success |-> TRUE, totalScore |-> totalScore,
                  canProgress |-> canProgress, attemptId |-> Len(attemptAfter)]]

\* A call of submitCheckpoint.
SubmitCheckpoint(session, subtopicId, answers, writes) ==
  \E after \in {submitCheckpoint([user |-> user, attempt |-> attempt,
                                   userProgress |-> userProgress,
                                   response |-> response],
                                  session, subtopicId, answers, writes)} :
      /\ request' = [proc |-> "submitCheckpoint", session |-> session,
                     input |-> [subtopicId |-> subtopicId, answers |-> answers]]
      /\ user' = after.user
      /\ attempt' = after.attempt
      /\ userProgress' = after.userProgress
      /\ response' = after.response
      /\ UNCHANGED <<genVars, uiVars, clientQuestions>>

\* prisma.subtopic.findMany({ where: { topicId }, orderBy: { id: "asc" } }):
\* the table lists the rows of the topic in that order.
subtopicsOfTopic(topicId) ==
  SelectSeq(Subtopic, LAMBDA row : row.topicId = topicId)

indexOfSubtopic(rows, id) ==
  IF \E i \in DOMAIN rows : rows[i].id = id
    THEN CHOOSE i \in DOMAIN rows : rows[i].id = id
    ELSE 0

\* results.get (query, but it writes): for a passed attempt that has a next
\* subtopic, a signed-in user's row of the subtopic becomes completed and
\* the row of the next one in_progress.
ResultsGet(session, attemptId) ==
  LET userId == getUserIdFromSession(session)
      found == attemptId \in DOMAIN attempt
                 /\ attempt[attemptId].userId = effectiveUserId(session)
  IN
  /\ request' = [proc |-> "results.get", session |-> session,
                 input |-> [attemptId |-> attemptId]]
  /\ clientQuestions' = Nil
  /\ UNCHANGED <<genVars, uiVars, attempt, user>>
  /\ IF ~found
       THEN /\ response' = [error |-> None, attemptId |-> attemptId, totalScore |-> 0,
                            canProgress |-> FALSE, nextSubtopicId |-> None,
                            subtopicId |-> "unknown"]
            /\ UNCHANGED userProgress
       ELSE
         LET row == attempt[attemptId]
             canProgress == row.totalScore >= PassThreshold
             allSubtopics == subtopicsOfTopic(subtopicFindUnique(row.subtopicId).topicId)
             currentIndex == indexOfSubtopic(allSubtopics, row.subtopicId)
             hasNext == canProgress /\ currentIndex >= 1 /\ currentIndex < Len(allSubtopics)
             nextSubtopicId == IF hasNext THEN allSubtopics[currentIndex + 1].id ELSE None
             afterCurrent == progressUpsert(userProgress, userId, row.subtopicId,
                               completedData, completedData)
             afterNext == progressUpsert(afterCurrent, userId, nextSubtopicId,
                            inProgressData("content"), inProgressData("content"))
         IN  /\ userProgress' = IF hasNext /\ userId # None THEN afterNext ELSE userProgress
             /\ response' = [error |-> None, attemptId |-> attemptId,
                             totalScore |-> row.totalScore, canProgress |-> canProgress,
                             nextSubtopicId |-> nextSubtopicId,
                             subtopicId |-> row.subtopicId]

getBadgeFromPercentage(percentage) ==
  IF percentage >= 75 THEN 100 ELSE IF percentage >= 25 THEN 50 ELSE 0

\* The topic of the model as topic.findMany returns it: its subtopics by
\* complexityScore ascending (the table is in that order).
topicSubtopics == subtopicsOfTopic(Topic1)

\* completedSet.has(sub.id) ? "completed" : sub.status
reportedStatus(completedSet, sub) ==
  IF sub.id \in completedSet THEN "completed" ELSE sub.status

\* The subtopics the user has a completed UserProgress row for.
completedSubtopics(userId) ==
  {id \in SubtopicIds :
     /\ userId # None
     /\ HasProgress(userProgress, userId, id)
     /\ userProgress[<<userId, id>>].status = "completed"}

\* dashboard.getTopics (query): a subtopic is reported completed when the
\* user has a completed row for it, and with its own Subtopic.status
\* otherwise.
DashboardGetTopics(session) ==
  LET userId == getUserIdFromSession(session)
      completedSet == completedSubtopics(userId)
      total == Len(topicSubtopics)
      completed == Cardinality({i \in DOMAIN topicSubtopics :
                                  topicSubtopics[i].id \in completedSet})
      rawPercent == IF total > 0 THEN MathRound(100 * completed, total) ELSE 0
  IN
  /\ request' = [proc |-> "dashboard.getTopics", session |-> session, input |-> Nil]
  /\ response' =
       [error |-> None,
        id |-> Topic1,
        progressPercentage |-> IF userId = None THEN 0
                               ELSE getBadgeFromPercentage(rawPercent),
        subtopics |-> [i \in DOMAIN topicSubtopics |->
                         [id |-> topicSubtopics[i].id,
                          orderIndex |-> i,
                          status |-> reportedStatus(completedSet, topicSubtopics[i]),
                          complexityScore |-> topicSubtopics[i].complexityScore]]]
  /\ clientQuestions' = Nil
  /\ UNCHANGED <<genVars, uiVars, dbVars>>

\* dashboard.startTopic (mutation): the first subtopic of the topic becomes
\* in_progress for the user; the row needs its User.
DashboardStartTopic(session, topicId) ==
  LET rows == subtopicsOfTopic(topicId)
      userId == effectiveUserId(session)
  IN
  /\ request' = [proc |-> "dashboard.startTopic", session |-> session,
                 input |-> [topicId |-> topicId]]
  /\ clientQuestions' = Nil
  /\ UNCHANGED <<genVars, uiVars, attempt, user>>
  /\ IF rows = <<>>
       THEN /\ response' = [error |-> None, success |-> FALSE, firstSubtopicId |-> None]
            /\ UNCHANGED userProgress
     ELSE IF userId \notin user
       THEN /\ response' = [error |-> "INTERNAL_SERVER_ERROR"]
            /\ UNCHANGED userProgress
     ELSE /\ userProgress' = progressUpsert(userProgress, userId, rows[1].id,
                               inProgressData("content"), inProgressData("content"))
          /\ response' = [error |-> None, success |-> TRUE, firstSubtopicId |-> rows[1].id]

\* exitPoint.position || 0
exitPosition(exitPoint) ==
  IF exitPoint # Nil /\ "position" \in DOMAIN exitPoint THEN exitPoint.position ELSE 0

\* exitPoint.signals || getDefaultSignals()
exitSignals(exitPoint) ==
  IF "signals" \in DOMAIN exitPoint THEN exitPoint.signals ELSE getDefaultSignals

\* content.getContent (query): content, status, phase, resume position and
\* adaptation modifier (1 unless the row holds an exit point).
ContentGetContent(session, subtopicId) ==
  LET userId == effectiveUserId(session)
      subtopic == subtopicFindUnique(subtopicId)
      hasRow == HasProgress(userProgress, userId, subtopicId)
  IN
  /\ request' = [proc |-> "content.getContent", session |-> session,
                 input |-> [subtopicId |-> subtopicId]]
  /\ response' =
       IF subtopic = Nil THEN [error |-> "Subtopic not found"]
       ELSE [error |-> None,
             content |-> subtopic.id,
             complexityScore |-> subtopic.complexityScore,
             resumePosition |-> IF hasRow
                                  THEN exitPosition(userProgress[<<userId, subtopicId>>].exitPoint)
                                  ELSE 0,
             status |-> IF hasRow THEN userProgress[<<userId, subtopicId>>].status
                        ELSE "not_started",
             currentPhase |-> IF hasRow THEN userProgress[<<userId, subtopicId>>].currentPhase
                              ELSE "content",
             adaptationModifier |->
               IF hasRow /\ userProgress[<<userId, subtopicId>>].exitPoint # Nil
                 THEN calculateComplexityAdjustment(
                        exitSignals(userProgress[<<userId, subtopicId>>].exitPoint),
                        subtopic.complexityScore).modifier
                 ELSE 10000]
  /\ clientQuestions' = Nil
  /\ UNCHANGED <<genVars, uiVars, dbVars>>

\* content.saveProgress and progress.save (mutations): the upsert of the
\* exit point; nothing is saved without a session.
saveExitPoint(proc, phase, session, input, exitPoint) ==
  LET userId == getUserIdFromSession(session)
  IN
  /\ request' = [proc |-> proc, session |-> session, input |-> input]
  /\ response' = [error |-> None, success |-> TRUE]
  /\ userProgress' =
       IF userId = None THEN userProgress
       ELSE progressUpsert(userProgress, userId, input.subtopicId,
              exitPointData(phase, exitPoint), exitPointData(phase, exitPoint))
  /\ UNCHANGED <<genVars, uiVars, attempt, user>>

\* content.saveProgress: position, signals and the modifier computed from
\* them (1 without signals or without the subtopic).
ContentSaveProgress(session, subtopicId, position, signals) ==
  LET subtopic == subtopicFindUnique(subtopicId)
      adaptationModifier ==
        IF signals # Nil /\ subtopic # Nil
          THEN calculateComplexityAdjustment(signals, subtopic.complexityScore).modifier
          ELSE 10000
  IN
  /\ saveExitPoint("content.saveProgress", "content", session,
                   [subtopicId |-> subtopicId, position |-> position, signals |-> signals],
                   [type |-> "content", position |-> position,
                    signals |-> IF signals # Nil THEN signals ELSE getDefaultSignals,
                    adaptationModifier |-> adaptationModifier])
  /\ clientQuestions' = Nil

\* progress.save: the exit point of the checkpoint holds type and position.
ProgressSave(session, subtopicId, position) ==
  saveExitPoint("progress.save", "checkpoint", session,
                [subtopicId |-> subtopicId, position |-> position],
                [type |-> "checkpoint", position |-> position])

\* handleExitConfirm: progress.save with position 0, then resetCheckpoint
\* and onExit.
handleExitConfirm(session) ==
  /\ ProgressSave(session, clientQuestions.subtopicId, 0)
  /\ clientQuestions' = Nil

\* The rows findFirst({ where: { userId, status: "in_progress" } }) can
\* return: the query has no orderBy.
inProgressRows(userId) ==
  {id \in SubtopicIds : /\ HasProgress(userProgress, userId, id)
                        /\ userProgress[<<userId, id>>].status = "in_progress"}

\* attempt.findFirst({ where: { userId, subtopicId }, orderBy: { createdAt:
\* "desc" } }): the id of the latest attempt, or NoAttempt.
latestAttempt(userId, subtopicId) ==
  LET ids == {i \in DOMAIN attempt : /\ attempt[i].userId = userId
                                     /\ attempt[i].subtopicId = subtopicId}
  IN  IF ids = {} THEN NoAttempt ELSE CHOOSE i \in ids : \A j \in ids : j <= i

\* What getResumePoint returns for a row it found: the URL by the phase of
\* the row, the content URL being the default.
resumePoint(userId, subtopicId) ==
  LET currentPhase == userProgress[<<userId, subtopicId>>].currentPhase
      contentUrl == [page |-> "content", subtopicId |-> subtopicId]
  IN  [error |-> None,
       found |-> TRUE,
       url |-> IF currentPhase = "checkpoint"
                 THEN [page |-> "checkpoint", subtopicId |-> subtopicId]
               ELSE IF currentPhase = "results"
                         /\ latestAttempt(userId, subtopicId) # NoAttempt
                 THEN [page |-> "results",
                       attemptId |-> latestAttempt(userId, subtopicId)]
               ELSE contentUrl,
       phase |-> currentPhase]

\* Every answer getResumePoint can give the user.
resumePoints(userId) ==
  IF userId = None \/ inProgressRows(userId) = {}
    THEN {[error |-> None, found |-> FALSE]}
    ELSE {resumePoint(userId, id) : id \in inProgressRows(userId)}

\* dashboard.getResumePoint (query).
DashboardGetResumePoint(session) ==
  /\ request' = [proc |-> "dashboard.getResumePoint", session |-> session, input |-> Nil]
  /\ response' \in resumePoints(getUserIdFromSession(session))
  /\ clientQuestions' = Nil
  /\ UNCHANGED <<genVars, uiVars, dbVars>>

(***************************************************************************)
(* Spec: a browser session against the application router                  *)
(***************************************************************************)
\* Scroll positions (percent) the content page saves, and the signals it
\* sends with them: a fast reader without pauses.
Positions == {40}
SignalsSent ==
  {[scrollSpeed |-> 120, pausePoints |-> 1, revisitCount |-> 0, timeOnPage |-> 20000]}

OpenDashboard == \E session \in Users : DashboardGetTopics(session)

\* The dashboard asks where to resume.
OpenResumePoint == \E session \in Users : DashboardGetResumePoint(session)

StartTopic == \E session \in Users : DashboardStartTopic(session, Topic1)

\* The content page of any subtopic, opened by its URL.
OpenContent == \E session \in Users, subtopicId \in SubtopicIds :
                 ContentGetContent(session, subtopicId)

SaveContentProgress ==
  \E session \in Users, subtopicId \in SubtopicIds, position \in Positions,
     signals \in SignalsSent :
    ContentSaveProgress(session, subtopicId, position, signals)

\* The checkpoint page of any subtopic, opened by its URL.
OpenCheckpoint ==
  \E subtopicId \in SubtopicIds, draw \in RouterDraws :
    CheckpointGenerate(DEFAULT_COMPLEXITY_SCORE, DEFAULT_ADAPTATION_MODIFIER,
                       subtopicId, draw)

ExitCheckpoint ==
  /\ clientQuestions # Nil
  /\ \E session \in Users : handleExitConfirm(session)

\* handleSubmitCheckpoint of a signed-in user, every question answered.
SubmitScreen ==
  /\ clientQuestions # Nil
  /\ Len(attempt) < MaxAttempts
  /\ \E wrong \in WrongSets(clientQuestions.count) :
       LET payload == submitPayload(clientQuestions.questions,
                                    ClientAnswers(clientQuestions.questions, wrong))
       IN  \E session \in Users, writes \in WriteOutcomes :
             SubmitCheckpoint(session, clientQuestions.subtopicId, payload, writes)

\* The same without a session: the attempt is the demo user's.
SubmitAsGuest ==
  /\ clientQuestions # Nil
  /\ Len(attempt) < MaxAttempts
  /\ LET payload == submitPayload(clientQuestions.questions,
                                 ClientAnswers(clientQuestions.questions, {}))
     IN  \E writes \in SubmitOutcomes \ {"createFails", "upsertFails"} :
           SubmitCheckpoint(None, clientQuestions.subtopicId, payload, writes)

\* The results page, opened with the attempt id of the last response or by
\* its URL.
OpenResults ==
  \E session \in Users, attemptId \in DOMAIN attempt \cup {NoAttempt} :
    ResultsGet(session, attemptId)

Next ==
  \/ OpenDashboard
  \/ OpenResumePoint
  \/ StartTopic
  \/ OpenContent
  \/ SaveContentProgress
  \/ OpenCheckpoint
  \/ ExitCheckpoint
  \/ SubmitScreen
  \/ SubmitAsGuest
  \/ OpenResults

Spec == InitDb /\ [][Next]_vars

ScreenSubmitReturned ==
  /\ request # Nil /\ request.proc = "submitCheckpoint"
  /\ response.error = None

\* The submitted answers by the difficulty bucket of the question each one
\* answers, with the correctness the screen computed.
submittedByBucket ==
  [k \in DOMAIN request.input.answers |->
     [found |-> TRUE,
      category |-> getDifficultyCategory(clientQuestions.questions[k].difficulty),
      isCorrect |-> request.input.answers[k].isCorrect]]

\* C2: the totalScore submitCheckpoint returns and stores is the rounded
\* weighted combination 0.4 / 0.35 / 0.25 of the bucket percentages of the
\* submitted answers, and canProgress is totalScore >= 70.
C2_ScreenScoreWeighted ==
  ScreenSubmitReturned =>
    /\ IsWeightedScore(submittedByBucket, response.totalScore)
    /\ response.canProgress = (response.totalScore >= 70)
    /\ response.attemptId \in DOMAIN attempt =>
         attempt[response.attemptId].totalScore = response.totalScore

\* C4: for a signed-in user every Attempt row comes with the UserProgress row
\* of its subtopic, and a submit that reports success has created its Attempt.
C4_SubmitAtomic ==
  /\ \A i \in DOMAIN attempt :
       attempt[i].userId \in Users =>
         HasProgress(userProgress, attempt[i].userId, attempt[i].subtopicId)
  /\ (ScreenSubmitReturned /\ request.session \in Users) =>
       response.attemptId \in DOMAIN attempt

\* C5: after a submit that reported success to a signed-in user, the user's
\* UserProgress row of the subtopic is completed exactly when the score is
\* at least 70, and in_progress when it is below.
C5_StatusFollowsScore ==
  (ScreenSubmitReturned /\ request.session \in Users) =>
    LET key == <<request.session, request.input.subtopicId>>
    IN  /\ key \in DOMAIN userProgress
        /\ (userProgress[key].status = "completed") = (response.totalScore >= 70)
        /\ response.totalScore < 70 => userProgress[key].status = "in_progress"

\* C6: once a signed-in user has viewed the results of a passed attempt that
\* has a next subtopic, dashboard.getTopics reports that subtopic to the
\* user with a status other than locked.
C6_NextUnlocked ==
  ( /\ request # Nil /\ request.proc = "results.get"
    /\ request.session \in Users
    /\ response.canProgress
    /\ response.nextSubtopicId # None ) =>
      reportedStatus(completedSubtopics(request.session),
                     subtopicFindUnique(response.nextSubtopicId)) # "locked"

\* Every subtopic that comes before this one in its topic is completed by
\* the user.
earlierCompleted(userId, subtopicId) ==
  LET rows == subtopicsOfTopic(subtopicFindUnique(subtopicId).topicId)
  IN  \A j \in 1 .. (indexOfSubtopic(rows, subtopicId) - 1) :
        rows[j].id \in completedSubtopics(userId)

\* C7: content is served, and a checkpoint accepted, for a subtopic only when
\* the user has completed every earlier subtopic of the topic.
C7_LinearFlow ==
  /\ ( /\ request # Nil /\ request.proc = "content.getContent"
       /\ response.error = None ) =>
         earlierCompleted(effectiveUserId(request.session), request.input.subtopicId)
  /\ ScreenSubmitReturned =>
       earlierCompleted(effectiveUserId(request.session), request.input.subtopicId)

\* The position content.getContent would return to the user for a subtopic.
resumePositionOf(userId, subtopicId) ==
  IF HasProgress(userProgress, userId, subtopicId)
    THEN exitPosition(userProgress[<<userId, subtopicId>>].exitPoint)
    ELSE 0

\* The row of the user holds the exit point of a content.saveProgress.
contentSaved(userId, subtopicId) ==
  /\ HasProgress(userProgress, userId, subtopicId)
  /\ userProgress[<<userId, subtopicId>>].exitPoint # Nil
  /\ userProgress[<<userId, subtopicId>>].exitPoint.type = "content"

\* C17: once a signed-in user has saved a content position for a subtopic,
\* no procedure other than content.saveProgress for that subtopic changes the
\* resume position content.getContent returns for it.
C17_ResumeKeepsPosition ==
  [][\A u \in Users, s \in SubtopicIds :
       ( /\ contentSaved(u, s)
         /\ ~( /\ request'.proc = "content.saveProgress"
               /\ request'.session = u
               /\ request'.input.subtopicId = s ) )
       => resumePositionOf(u, s)' = resumePositionOf(u, s)]_vars

\* C18: whenever a row of the user is in phase results, getResumePoint can
\* answer with the results URL of the latest attempt for that subtopic; an
\* answer for a row in phase checkpoint is the checkpoint URL and one for a
\* row in phase content the content URL.
C18_ResumeAllPhases ==
  /\ \A u \in Users, s \in SubtopicIds :
       ( /\ HasProgress(userProgress, u, s)
         /\ userProgress[<<u, s>>].currentPhase = "results" )
       => \E r \in resumePoints(u) :
            /\ r.found
            /\ r.url = [page |-> "results", attemptId |-> latestAttempt(u, s)]
  /\ ( /\ request # Nil /\ request.proc = "dashboard.getResumePoint"
       /\ response.found ) =>
         response.url.page = response.phase

(***************************************************************************)
(* Question feedback: lib/gemini/feedback.ts, the route                    *)
(* /api/gemini/feedback and the ResultsScreen that calls it                *)
(***************************************************************************)
\* What the generateContent call of generateQuestionFeedback does: it returns
\* a text of at least 10 characters, a shorter one, or it throws (any error,
\* one that names the API key, one that names the rate limit).
FeedbackOutcomes == {"TEXT", "SHORT", "ERROR", "ERROR_API_KEY", "ERROR_RATE_LIMIT"}

\* generateQuestionFeedback: the stripped text, or the error it rethrows.
generateQuestionFeedback(gemini) ==
  IF gemini = "TEXT"
    THEN [threw |-> FALSE, feedback |-> "text of the model"]
    ELSE [threw |-> TRUE,
          message |-> CASE gemini = "SHORT" -> "too short or empty"
                        [] gemini = "ERROR" -> "failed"
                        [] gemini = "ERROR_API_KEY" -> "API key"
                        [] gemini = "ERROR_RATE_LIMIT" -> "rate limit"]

\* POST /api/gemini/feedback: 400 for a body without one of the three
\* strings, 200 with the feedback, and 500 or 429 with an error when
\* generateQuestionFeedback throws.
POST(body, gemini) ==
  IF body.question = "" THEN [status |-> 400, error |-> "Missing or invalid 'question' field"]
  ELSE IF body.userAnswer = ""
    THEN [status |-> 400, error |-> "Missing or invalid 'userAnswer' field"]
  ELSE IF body.correctAnswer = ""
    THEN [status |-> 400, error |-> "Missing or invalid 'correctAnswer' field"]
  ELSE
    LET generated == generateQuestionFeedback(gemini)
    IN  IF ~generated.threw
          THEN [status |-> 200, error |-> None, feedback |-> generated.feedback]
        ELSE IF generated.message = "API key"
          THEN [status |-> 500, error |-> "API configuration error"]
        ELSE IF generated.message = "rate limit"
          THEN [status |-> 429, error |-> "Rate limit exceeded"]
        ELSE [status |-> 500, error |-> "Failed to generate feedback"]

\* Bound: the questions of the attempt the results page shows.
NumResultQuestions == 3
ResultQuestionIds == 1 .. NumResultQuestions

\* The body fetchFeedback sends for a question of results.get: the question
\* text, the answer as text and "See explanation" (the response of
\* results.get holds no options).
feedbackBody(question) ==
  [question |-> question.questionText,
   userAnswer |-> question.userAnswerText,
   correctAnswer |-> "See explanation"]

\* toggleQuestion: the question is expanded or collapsed; expanding a
\* question answered incorrectly starts fetchFeedback unless the feedback is
\* cached or loading.
ToggleQuestion(questionId) ==
  LET expanding == questionId \notin resultsScreen.expandedQuestions
      question == resultsScreen.questions[questionId]
      fetches == /\ expanding
                 /\ ~question.isCorrect
                 /\ questionId \notin DOMAIN resultsScreen.feedbackCache
                 /\ questionId \notin resultsScreen.loadingFeedback
  IN  /\ resultsScreen' =
           [resultsScreen EXCEPT
              !.expandedQuestions = IF expanding THEN @ \cup {questionId}
                                                 ELSE @ \ {questionId},
              !.loadingFeedback = IF fetches THEN @ \cup {questionId} ELSE @]
      /\ UNCHANGED <<genVars, dbVars, rpcVars, offlineQueue, autoSave, browser,
                     checkpointState, checkpointScreen>>

\* The rest of fetchFeedback: the request fails on the way (fetch throws), or
\* the route answers; only a 200 answer is cached, and the question leaves
\* the loading set either way.
FetchFeedbackSettles(questionId, reached, gemini) ==
  LET body == feedbackBody(resultsScreen.questions[questionId])
      answer == IF reached THEN POST(body, gemini)
                           ELSE [status |-> 0, error |-> "Failed to fetch"]
  IN  /\ questionId \in resultsScreen.loadingFeedback
      /\ request' = [proc |-> "POST /api/gemini/feedback", input |-> body,
                     questionId |-> questionId, reached |-> reached, gemini |-> gemini]
      /\ response' = answer
      /\ resultsScreen' =
           [resultsScreen EXCEPT
              !.feedbackCache =
                 IF answer.status = 200
                   THEN [q \in DOMAIN @ \cup {questionId} |->
                           IF q = questionId THEN answer.feedback ELSE @[q]]
                   ELSE @,
              !.loadingFeedback = @ \ {questionId}]
      /\ UNCHANGED <<genVars, dbVars, clientQuestions, offlineQueue, autoSave, browser,
                     checkpointState, checkpointScreen>>

(***************************************************************************)
(* SpecFeedback: the results page of an attempt, its cards opened and      *)
(* closed                                                                  *)
(***************************************************************************)
\* The questions as results.get returns them, any of them answered
\* incorrectly.
ResultQuestions ==
  {[q \in ResultQuestionIds |->
      [questionText |-> "Question", userAnswerText |-> "answer",
       explanation |-> "You answered", isCorrect |-> q \notin wrong]]
     : wrong \in SUBSET ResultQuestionIds}

InitFeedback ==
  /\ config = Nil
  /\ result = Nil
  /\ clientQuestions = Nil
  /\ attempt = <<>>
  /\ userProgress = <<>>
  /\ user = Users
  /\ request = Nil
  /\ response = Nil
  /\ \E questions \in ResultQuestions :
       resultsScreen = [questions |-> questions,
                        expandedQuestions |-> {},
                        feedbackCache |-> <<>>,
                        loadingFeedback |-> {}]
  /\ offlineQueue = Nil
  /\ autoSave = Nil
  /\ browser = Nil
  /\ checkpointState = Nil
  /\ checkpointScreen = Nil

ExpandOrCollapse == \E questionId \in ResultQuestionIds : ToggleQuestion(questionId)

FeedbackAnswered ==
  \E questionId \in ResultQuestionIds, gemini \in FeedbackOutcomes :
    FetchFeedbackSettles(questionId, TRUE, gemini)

FeedbackUnreachable ==
  \E questionId \in ResultQuestionIds : FetchFeedbackSettles(questionId, FALSE, "TEXT")

NextFeedback ==
  \/ ExpandOrCollapse
  \/ FeedbackAnswered
  \/ FeedbackUnreachable

SpecFeedback == InitFeedback /\ [][NextFeedback]_vars

\* C14: when the AI call for the feedback of a question fails, the request
\* for feedback is still answered with feedback text (status 200, no error),
\* and that text is what the page holds for the question.
C14_FeedbackFallback ==
  ( /\ request # Nil /\ request.proc = "POST /api/gemini/feedback"
    /\ request.reached
    /\ request.gemini # "TEXT" ) =>
      /\ response.status = 200
      /\ response.error = None
      /\ request.questionId \in DOMAIN resultsScreen.feedbackCache

(***************************************************************************)
(* useOfflineQueue and useAutoSave: the hooks of the content reader        *)
(***************************************************************************)
\* The delay of the debounce timer of save, in seconds (setTimeout 5000).
DebounceDelay == 5

\* Bound: the calls of save in one behaviour.
MaxSaves == 3

\* The positions and signals save is called with.
SavePositions == {10, 40}
SaveSignals == SignalsSent \cup {getDefaultSignals}

\* The request addToQueue stores for a save ('id' and 'timestamp' are left
\* out: nothing reads them).
queuedSave(position, signals) ==
  [url |-> "/api/trpc/content.saveProgress", position |-> position, signals |-> signals]

\* saveQueue: the state and localStorage get the new queue.
saveQueue(newQueue) ==
  /\ offlineQueue' = [offlineQueue EXCEPT !.queue = newQueue]
  /\ browser' = [browser EXCEPT !.localStorage = newQueue]

\* The requests of a queue the server did not accept, in queue order.
failedOf(queue, accepts) ==
  LET failed[n \in 0 .. Len(queue)] ==
        IF n = 0 THEN <<>>
        ELSE IF accepts[n] THEN failed[n - 1]
        ELSE Append(failed[n - 1], queue[n])
  IN  failed[Len(queue)]

\* processQueue over the queue its closure holds: nothing for an empty queue,
\* otherwise each request is fetched in turn and the failed ones are saved
\* as the new queue.
processQueue(queue, accepts) ==
  IF Len(queue) = 0
    THEN [saves |-> FALSE, fetched |-> <<>>, failed |-> <<>>]
    ELSE [saves |-> TRUE,
          fetched |-> [i \in 1 .. Len(queue) |->
                         [position |-> queue[i].position, signals |-> queue[i].signals,
                          via |-> "processQueue", accepted |-> accepts[i]]],
          failed |-> failedOf(queue, accepts)]

\* The 'online' event: handleOnline sets isOnline and calls the processQueue
\* of the render that registered it, the first one, whose queue is the
\* initial state of useState.
HandleOnline ==
  /\ ~browser.onLine
  /\ \E accepts \in [1 .. Len(offlineQueue.handlerQueue) -> BOOLEAN] :
       LET done == processQueue(offlineQueue.handlerQueue, accepts)
       IN  /\ offlineQueue' =
                [offlineQueue EXCEPT !.isOnline = TRUE,
                                     !.queue = IF done.saves THEN done.failed ELSE @]
           /\ browser' =
                [browser EXCEPT !.onLine = TRUE,
                                !.received = @ \o done.fetched,
                                !.localStorage = IF done.saves THEN done.failed ELSE @]
  /\ UNCHANGED <<genVars, dbVars, rpcVars, resultsScreen, autoSave,
                 checkpointState, checkpointScreen>>

\* The 'offline' event: handleOffline.
HandleOffline ==
  /\ browser.onLine
  /\ offlineQueue' = [offlineQueue EXCEPT !.isOnline = FALSE]
  /\ browser' = [browser EXCEPT !.onLine = FALSE]
  /\ UNCHANGED <<genVars, dbVars, rpcVars, resultsScreen, autoSave,
                 checkpointState, checkpointScreen>>

\* save(position, signals): the two refs (pending) are set, the pending timer is cleared
\* and a new one is set, whose callback keeps the position, the signals, and
\* the isOnline and addToQueue (with its queue) of the render save came from.
Save(position, signals) ==
  /\ browser.saves < MaxSaves
  /\ autoSave' =
       [autoSave EXCEPT
          !.pending = [position |-> position, signals |-> signals],
          !.timeout = [remaining |-> DebounceDelay, position |-> position,
                       signals |-> signals, isOnline |-> offlineQueue.isOnline,
                       queue |-> offlineQueue.queue]]
  /\ browser' = [browser EXCEPT !.saves = @ + 1, !.sinceLastCall = 0]
  /\ UNCHANGED <<genVars, dbVars, rpcVars, resultsScreen, offlineQueue,
                 checkpointState, checkpointScreen>>

\* One second passes; a timer that is due fires before the next second.
Tick ==
  /\ IF autoSave.timeout = Nil THEN browser.sinceLastCall < DebounceDelay
                                ELSE autoSave.timeout.remaining > 0
  /\ autoSave' = [autoSave EXCEPT
                    !.timeout = IF @ = Nil THEN @ ELSE [@ EXCEPT !.remaining = @ - 1]]
  /\ browser' = [browser EXCEPT !.sinceLastCall = Min(@ + 1, DebounceDelay)]
  /\ UNCHANGED <<genVars, dbVars, rpcVars, resultsScreen, offlineQueue,
                 checkpointState, checkpointScreen>>

\* The callback of the timer: saveMutation.mutate (with onMutate) when the
\* isOnline of its closure is true, addToQueue and setLastSavedPosition
\* otherwise.
TimerFires ==
  LET timer == autoSave.timeout
  IN  /\ timer # Nil
      /\ timer.remaining = 0
      /\ IF timer.isOnline
           THEN /\ autoSave' =
                     [autoSave EXCEPT
                        !.timeout = Nil,
                        !.inFlight = Append(@, [position |-> timer.position,
                                                signals |-> timer.signals]),
                        !.isSaving = TRUE,
                        !.error = FALSE]
                /\ UNCHANGED <<offlineQueue, browser>>
           ELSE /\ autoSave' = [autoSave EXCEPT !.timeout = Nil,
                                                !.lastSavedPosition = timer.position]
                /\ saveQueue(Append(timer.queue, queuedSave(timer.position, timer.signals)))
      /\ UNCHANGED <<genVars, dbVars, rpcVars, resultsScreen,
                     checkpointState, checkpointScreen>>

\* The sequence without its i-th element.
RemoveAt(seq, i) == SubSeq(seq, 1, i - 1) \o SubSeq(seq, i + 1, Len(seq))

\* A mutation in flight succeeds: the server has the save; onSuccess.
MutationSucceeds(i) ==
  /\ i \in 1 .. Len(autoSave.inFlight)
  /\ browser.onLine
  /\ autoSave' =
       [autoSave EXCEPT
          !.inFlight = RemoveAt(@, i),
          !.isSaving = FALSE,
          !.lastSavedPosition = IF autoSave.pending # Nil
                                  THEN autoSave.pending.position ELSE @]
  /\ browser' =
       [browser EXCEPT
          !.received = Append(@, [position |-> autoSave.inFlight[i].position,
                                  signals |-> autoSave.inFlight[i].signals,
                                  via |-> "mutation", accepted |-> TRUE])]
  /\ UNCHANGED <<genVars, dbVars, rpcVars, resultsScreen, offlineQueue,
                 checkpointState, checkpointScreen>>

\* A mutation in flight fails: onError queues the position and signals of
\* the refs, which are those of the last call of save.
MutationFails(i) ==
  /\ i \in 1 .. Len(autoSave.inFlight)
  /\ autoSave' = [autoSave EXCEPT !.inFlight = RemoveAt(@, i),
                                  !.isSaving = FALSE,
                                  !.error = TRUE]
  /\ IF autoSave.pending # Nil
       THEN saveQueue(Append(offlineQueue.queue,
                             queuedSave(autoSave.pending.position, autoSave.pending.signals)))
       ELSE UNCHANGED <<offlineQueue, browser>>
  /\ UNCHANGED <<genVars, dbVars, rpcVars, resultsScreen,
                 checkpointState, checkpointScreen>>

(***************************************************************************)
(* SpecAutoSave: a content reader whose caller saves, while time passes    *)
(* and the connection comes and goes                                       *)
(***************************************************************************)
\* What localStorage holds under "offlineQueue" when the hook mounts:
\* nothing, or a save an earlier visit queued.
StoredQueues == {<<>>, <<queuedSave(10, getDefaultSignals)>>}

\* The hooks after their first effects: isOnline is navigator.onLine, the
\* queue is the one of localStorage, and the 'online' handler holds the
\* queue of the first render.
InitAutoSave ==
  /\ config = Nil
  /\ result = Nil
  /\ clientQuestions = Nil
  /\ attempt = <<>>
  /\ userProgress = <<>>
  /\ user = Users
  /\ request = Nil
  /\ response = Nil
  /\ resultsScreen = Nil
  /\ checkpointState = Nil
  /\ checkpointScreen = Nil
  /\ \E onLine \in BOOLEAN, stored \in StoredQueues :
       /\ browser = [onLine |-> onLine, localStorage |-> stored, received |-> <<>>,
                     saves |-> 0, sinceLastCall |-> DebounceDelay]
       /\ offlineQueue = [isOnline |-> onLine, queue |-> stored, handlerQueue |-> <<>>]
  /\ autoSave = [pending |-> Nil, timeout |-> Nil,
                 inFlight |-> <<>>, isSaving |-> FALSE, lastSavedPosition |-> Nil,
                 error |-> FALSE]

CallSave == \E position \in SavePositions, signals \in SaveSignals : Save(position, signals)

SaveSucceeds == \E i \in 1 .. MaxSaves : MutationSucceeds(i)

SaveFails == \E i \in 1 .. MaxSaves : MutationFails(i)

NextAutoSave ==
  \/ CallSave
  \/ Tick
  \/ TimerFires
  \/ SaveSucceeds
  \/ SaveFails
  \/ HandleOnline
  \/ HandleOffline

SpecAutoSave == InitAutoSave /\ [][NextAutoSave]_vars

\* The saves a step sends to the server.
fetchedBy(before, after) == SubSeq(after, Len(before) + 1, Len(after))

\* C15: when the browser fires 'online', every request of the offline queue
\* is sent to the server in queue order, and when the server accepts them
\* all the queue is empty afterwards, in the state and in localStorage.
C15_FlushOnReconnect ==
  [][ (~browser.onLine /\ browser'.onLine) =>
        LET fetched == fetchedBy(browser.received, browser'.received)
        IN  /\ Len(fetched) = Len(offlineQueue.queue)
            /\ \A i \in 1 .. Len(fetched) :
                 /\ fetched[i].position = offlineQueue.queue[i].position
                 /\ fetched[i].signals = offlineQueue.queue[i].signals
            /\ (\A i \in 1 .. Len(fetched) : fetched[i].accepted) =>
                 /\ offlineQueue'.queue = <<>>
                 /\ browser'.localStorage = <<>> ]_vars

\* The debounce timer fires in this step.
timerFiresNow ==
  /\ autoSave.timeout # Nil
  /\ autoSave.timeout.remaining = 0
  /\ autoSave'.timeout = Nil

\* C16: save is debounced by 5 seconds. A save is sent or queued only when
\* 5 s have passed since the last call of save; and when the timer fires,
\* exactly one save is issued, with the position and signals of the last
\* call: sent when the browser is online, put on the offline queue when it
\* is offline.
C16_DebouncedSave ==
  [][ /\ ( \/ Len(autoSave'.inFlight) > Len(autoSave.inFlight)
           \/ offlineQueue'.queue # offlineQueue.queue ) =>
             browser.sinceLastCall = DebounceDelay
      /\ timerFiresNow =>
           LET last == autoSave.pending
           IN  IF browser.onLine
                 THEN /\ autoSave'.inFlight =
                           Append(autoSave.inFlight,
                                  [position |-> last.position, signals |-> last.signals])
                      /\ offlineQueue'.queue = offlineQueue.queue
                 ELSE /\ offlineQueue'.queue =
                           Append(offlineQueue.queue,
                                  queuedSave(last.position, last.signals))
                      /\ autoSave'.inFlight = autoSave.inFlight ]_vars

(***************************************************************************)
(* useCheckpointState and CheckpointScreen: the state of the questions     *)
(* page and its handlers                                                   *)
(***************************************************************************)
\* Bound: the questions of a set on the screen.
NumScreenQuestions == 2

\* Bound: the times the submit mutation is invoked in one behaviour.
MaxSubmits == 2

\* The question sets checkpoint.generate answers with: each call makes new
\* ids, so a refetch replaces the set by one with other ids.
ScreenQuestionSet(prefix) ==
  [questions |-> [k \in 1 .. NumScreenQuestions |->
                    [id |-> <<prefix, k>>, type |-> "mcq", correctAnswerIndex |-> 1]]]

ScreenQuestionSets == {ScreenQuestionSet("a"), ScreenQuestionSet("b")}

\* What QuestionCard passes to onAnswerChange for these questions.
ScreenAnswers == {NumberAnswer(0), NumberAnswer(1)}

\* A value JavaScript treats as false in `x || null`.
falsy(answer) ==
  \/ answer.t = "number" /\ answer.v = 0
  \/ answer.t = "string" /\ answer.v = <<>>

\* useState of useCheckpointState, and resetCheckpoint: the initial state
\* over the questions given.
resetCheckpoint(questions) ==
  [status |-> IF Len(questions) > 0 THEN "question" ELSE "loading",
   currentIndex |-> 0,
   questions |-> questions,
   answers |-> <<>>,
   score |-> Nil,
   error |-> Nil]

totalQuestions(state) == Len(state.questions)

currentQuestion(state) ==
  IF state.currentIndex + 1 \in DOMAIN state.questions
    THEN state.questions[state.currentIndex + 1] ELSE Nil

\* state.answers.get(currentQuestion.id) || null
currentAnswer(state) ==
  IF currentQuestion(state) = Nil THEN Nil
  ELSE IF currentQuestion(state).id \notin DOMAIN state.answers THEN Nil
  ELSE IF falsy(state.answers[currentQuestion(state).id]) THEN Nil
  ELSE state.answers[currentQuestion(state).id]

answeredCount(state) == Cardinality(DOMAIN state.answers)

canGoPrevious(state) == state.currentIndex > 0

isLastQuestion(state) == state.currentIndex = totalQuestions(state) - 1

selectAnswer(state, answer) ==
  IF currentQuestion(state) = Nil THEN state
  ELSE
    LET id == currentQuestion(state).id
        newAnswers == [q \in DOMAIN state.answers \cup {id} |->
                         IF q = id THEN answer ELSE state.answers[q]]
    IN  [state EXCEPT
           !.answers = newAnswers,
           !.status = IF Cardinality(DOMAIN newAnswers) = totalQuestions(state)
                        THEN "submit" ELSE @]

nextQuestion(state) ==
  IF state.currentIndex >= totalQuestions(state) - 1 THEN state
  ELSE [state EXCEPT !.currentIndex = @ + 1, !.status = "question"]

previousQuestion(state) ==
  IF state.currentIndex <= 0 THEN state
  ELSE [state EXCEPT !.currentIndex = @ - 1, !.status = "question"]

setComplete(state, score) == [state EXCEPT !.status = "complete", !.score = score]

\* submitCheckpoint of the hook: the answered questions in the order of the questions.
useCheckpointState_submitCheckpoint(state) ==
  LET answersArray[n \in 0 .. Len(state.questions)] ==
        IF n = 0 THEN <<>>
        ELSE IF state.questions[n].id \in DOMAIN state.answers
          THEN Append(answersArray[n - 1],
                      [questionId |-> state.questions[n].id,
                       selectedAnswer |-> state.answers[state.questions[n].id]])
        ELSE answersArray[n - 1]
  IN  [answers |-> answersArray[Len(state.questions)],
       totalQuestions |-> totalQuestions(state),
       answeredQuestions |-> answeredCount(state)]

\* The `questions` of CheckpointScreen: those of the query, or none.
screenQuestions(screen) ==
  IF screen.questionSet = Nil THEN <<>> ELSE screen.questionSet.questions

\* The quiz is rendered: the query has answered with questions and the
\* status is "question" or "submit"; otherwise a spinner or a notice is.
quizRendered ==
  /\ checkpointScreen.mounted
  /\ Len(screenQuestions(checkpointScreen)) > 0
  /\ checkpointState.status \in {"question", "submit"}

\* A dialog covers the quiz (both are fixed overlays; the network error
\* dialog is the later one in the document and lies on top).
dialogOpen == checkpointScreen.showExitConfirm \/ checkpointScreen.networkError

screenFrame ==
  UNCHANGED <<genVars, dbVars, rpcVars, resultsScreen, offlineQueue, autoSave, browser>>

\* The first part of handleSubmitCheckpoint, up to the await: the payload is
\* built from the state and the questions of the query, submitting is set
\* and the mutation is invoked.
handleSubmitCheckpoint(screen, state) ==
  [screen EXCEPT
     !.submitting = TRUE,
     !.invoked = @ + 1,
     !.inFlight = Append(@, submitPayload(screenQuestions(screen),
                                          useCheckpointState_submitCheckpoint(state).answers))]

\* An error handler that throws the answers away.
catchSubmitError_Reset(screen, state, isNetwork) ==
  [screen |-> [screen EXCEPT !.networkError = IF isNetwork THEN TRUE ELSE @,
                             !.toasts = IF isNetwork THEN @ ELSE @ + 1,
                             !.submitting = FALSE],
   state |-> resetCheckpoint(screenQuestions(screen))]

\* The catch and finally blocks of handleSubmitCheckpoint: the retry dialog
\* for a network error, a toast for any other, and submitting is cleared.
catchSubmitError(screen, state, isNetwork) ==
  [screen |-> [screen EXCEPT !.networkError = IF isNetwork THEN TRUE ELSE @,
                             !.toasts = IF isNetwork THEN @ ELSE @ + 1,
                             !.submitting = FALSE],
   state |-> state]

\* A click on an option of the current question.
ClickAnswer ==
  /\ quizRendered /\ ~dialogOpen
  /\ currentQuestion(checkpointState) # Nil
  /\ \E answer \in ScreenAnswers :
       checkpointState' = selectAnswer(checkpointState, answer)
  /\ UNCHANGED checkpointScreen
  /\ screenFrame

\* Next is shown on every question but the last, enabled once the current
\* answer is not null.
ClickNext ==
  /\ quizRendered /\ ~dialogOpen
  /\ ~isLastQuestion(checkpointState)
  /\ currentAnswer(checkpointState) # Nil
  /\ checkpointState' = nextQuestion(checkpointState)
  /\ UNCHANGED checkpointScreen
  /\ screenFrame

ClickPrevious ==
  /\ quizRendered /\ ~dialogOpen
  /\ canGoPrevious(checkpointState)
  /\ checkpointState' = previousQuestion(checkpointState)
  /\ UNCHANGED checkpointScreen
  /\ screenFrame

\* Submit Checkpoint is shown on the last question when every question is
\* answered, and is disabled while submitting.
ClickSubmit ==
  /\ quizRendered /\ ~dialogOpen
  /\ isLastQuestion(checkpointState)
  /\ answeredCount(checkpointState) = totalQuestions(checkpointState)
  /\ ~checkpointScreen.submitting
  /\ checkpointScreen.invoked < MaxSubmits
  /\ checkpointScreen' = handleSubmitCheckpoint(checkpointScreen, checkpointState)
  /\ UNCHANGED checkpointState
  /\ screenFrame

\* The frame of the steps of the screen that reach the server.
serverFrame ==
  UNCHANGED <<genVars, rpcVars, resultsScreen, offlineQueue, autoSave, browser>>

\* The subtopic of the page, and submitCheckpoint of the application router
\* run on the tables for a payload of the screen.
ScreenSubtopic == "s1"

serverSubmit(session, payload, writes) ==
  submitCheckpoint([user |-> user, attempt |-> attempt, userProgress |-> userProgress,
                    response |-> response],
                   session, ScreenSubtopic, payload, writes)

\* The mutation resolves: the server has run submitCheckpoint (an Attempt
\* that could not be created is answered with success too); setComplete,
\* onComplete (the module then shows its results card in place of the
\* screen) and router.push.
SubmitResolves ==
  /\ \E i \in 1 .. Len(checkpointScreen.inFlight), session \in Users,
        writes \in {"ok", "createFails"} :
       \E after \in {serverSubmit(session, checkpointScreen.inFlight[i], writes)} :
         /\ user' = after.user
         /\ attempt' = after.attempt
         /\ userProgress' = after.userProgress
         /\ checkpointScreen' =
              [checkpointScreen EXCEPT !.inFlight = RemoveAt(@, i),
                                       !.submitting = FALSE,
                                       !.mounted = FALSE]
         /\ checkpointState' = IF checkpointScreen.mounted
                                 THEN setComplete(checkpointState, after.response.totalScore)
                                 ELSE checkpointState
  /\ serverFrame

\* How a submit fails: the request never reaches the server, the server
\* runs it and the response is lost (network errors both), or the server
\* answers with an error after the Attempt is created (the upsert fails).
RejectOutcomes == {"unreachable", "responseLost", "upsertFails"}

\* The mutation rejects, with a network error or an error of the server.
SubmitRejects ==
  /\ \E i \in 1 .. Len(checkpointScreen.inFlight), session \in Users,
        outcome \in RejectOutcomes :
       LET screen == [checkpointScreen EXCEPT
                        !.inFlight = RemoveAt(@, i),
                        !.failed = @ + 1,
                        !.lastFailed = checkpointScreen.inFlight[i]]
           isNetwork == outcome # "upsertFails"
           writes == IF outcome = "responseLost" THEN "ok" ELSE "upsertFails"
       IN  /\ IF outcome = "unreachable"
                THEN UNCHANGED dbVars
                ELSE \E after \in {serverSubmit(session, checkpointScreen.inFlight[i],
                                                writes)} :
                       /\ user' = after.user
                       /\ attempt' = after.attempt
                       /\ userProgress' = after.userProgress
           /\ IF checkpointScreen.mounted
                THEN \E after \in {catchSubmitError(screen, checkpointState, isNetwork)} :
                       /\ checkpointScreen' = after.screen
                       /\ checkpointState' = after.state
                ELSE /\ checkpointScreen' = screen
                     /\ UNCHANGED checkpointState
  /\ serverFrame

\* Exit in the header of the quiz.
ClickExit ==
  /\ quizRendered /\ ~dialogOpen
  /\ checkpointScreen' = [checkpointScreen EXCEPT !.showExitConfirm = TRUE]
  /\ UNCHANGED checkpointState
  /\ screenFrame

\* Cancel of the exit dialog.
ClickExitCancel ==
  /\ quizRendered
  /\ checkpointScreen.showExitConfirm /\ ~checkpointScreen.networkError
  /\ checkpointScreen' = [checkpointScreen EXCEPT !.showExitConfirm = FALSE]
  /\ UNCHANGED checkpointState
  /\ screenFrame

\* Exit of the exit dialog: handleExitConfirm starts progress.save; what
\* follows the await keeps the resetCheckpoint of this render, with its
\* questions.
ClickExitConfirm ==
  /\ quizRendered
  /\ checkpointScreen.showExitConfirm /\ ~checkpointScreen.networkError
  /\ checkpointScreen.exiting = Nil
  /\ checkpointScreen' =
       [checkpointScreen EXCEPT
          !.exiting = [questions |-> screenQuestions(checkpointScreen)]]
  /\ UNCHANGED checkpointState
  /\ screenFrame

\* A handler that leaves the answers where they are when the user exits.
handleExitSettled_KeepsAnswers(screen, state) ==
  [screen |-> [screen EXCEPT !.exiting = Nil, !.navigating = TRUE],
   state |-> state]

\* The rest of handleExitConfirm, after the await whether it threw or not:
\* resetCheckpoint (of the render of the click) and onExit, which is
\* router.push to the content page.
handleExitSettled(screen, state) ==
  [screen |-> [screen EXCEPT !.exiting = Nil, !.navigating = TRUE],
   state |-> IF screen.mounted THEN resetCheckpoint(screen.exiting.questions) ELSE state]

\* progress.save of the exit has settled: the server wrote the exit point of
\* the checkpoint (position 0), or the call failed; handleExitConfirm goes
\* on either way.
ExitSaveSettles ==
  /\ checkpointScreen.exiting # Nil
  /\ \E saved \in BOOLEAN, session \in Users :
       userProgress' =
         IF saved
           THEN progressUpsert(userProgress, session, ScreenSubtopic,
                  exitPointData("checkpoint", [type |-> "checkpoint", position |-> 0]),
                  exitPointData("checkpoint", [type |-> "checkpoint", position |-> 0]))
           ELSE userProgress
  /\ \E after \in {handleExitSettled(checkpointScreen, checkpointState)} :
       /\ checkpointScreen' = after.screen
       /\ checkpointState' = after.state
  /\ UNCHANGED <<attempt, user>>
  /\ serverFrame

\* The navigation router.push started is done: the screen is unmounted.
NavigationCompletes ==
  /\ checkpointScreen.navigating
  /\ checkpointScreen' = [checkpointScreen EXCEPT !.navigating = FALSE, !.mounted = FALSE]
  /\ UNCHANGED checkpointState
  /\ screenFrame

\* Retry of the network error dialog: handleRetrySubmit.
ClickRetry ==
  /\ quizRendered
  /\ checkpointScreen.networkError
  /\ checkpointScreen.invoked < MaxSubmits
  /\ checkpointScreen' =
       handleSubmitCheckpoint([checkpointScreen EXCEPT !.networkError = FALSE],
                              checkpointState)
  /\ UNCHANGED checkpointState
  /\ screenFrame

\* Cancel of the network error dialog.
ClickRetryCancel ==
  /\ quizRendered
  /\ checkpointScreen.networkError
  /\ checkpointScreen' = [checkpointScreen EXCEPT !.networkError = FALSE]
  /\ UNCHANGED checkpointState
  /\ screenFrame

\* The query answers for the first time. The hook was given no questions
\* when it mounted, and the function passed to useState at lines 98-106 ran
\* only then: its state keeps status "loading" and no questions.
QueryLoads ==
  /\ checkpointScreen.mounted
  /\ checkpointScreen.questionSet = Nil
  /\ \E questionSet \in ScreenQuestionSets :
       checkpointScreen' = [checkpointScreen EXCEPT !.questionSet = questionSet]
  /\ UNCHANGED checkpointState
  /\ screenFrame

\* The query refetches (window focus, reconnect) and gets another set.
QueryRefetches ==
  /\ checkpointScreen.mounted
  /\ checkpointScreen.questionSet # Nil
  /\ \E questionSet \in ScreenQuestionSets \ {checkpointScreen.questionSet} :
       checkpointScreen' = [checkpointScreen EXCEPT !.questionSet = questionSet]
  /\ UNCHANGED checkpointState
  /\ screenFrame

(***************************************************************************)
(* SpecScreen: one visit of the checkpoint page                            *)
(***************************************************************************)
\* The screen after its first render: the query is loading, or its answer
\* was in the cache and the hook got the questions.
InitScreen ==
  /\ config = Nil
  /\ result = Nil
  /\ clientQuestions = Nil
  /\ attempt = <<>>
  /\ userProgress = <<>>
  /\ user = Users
  /\ request = Nil
  /\ response = Nil
  /\ resultsScreen = Nil
  /\ offlineQueue = Nil
  /\ autoSave = Nil
  /\ browser = Nil
  /\ \E questionSet \in ScreenQuestionSets \cup {Nil} :
       /\ checkpointScreen =
            [mounted |-> TRUE, questionSet |-> questionSet,
             showExitConfirm |-> FALSE, submitting |-> FALSE, networkError |-> FALSE,
             toasts |-> 0, inFlight |-> <<>>, invoked |-> 0, failed |-> 0,
             lastFailed |-> Nil, exiting |-> Nil, navigating |-> FALSE]
       /\ checkpointState =
            resetCheckpoint(IF questionSet = Nil THEN <<>> ELSE questionSet.questions)

NextScreen ==
  \/ ClickAnswer
  \/ ClickNext
  \/ ClickPrevious
  \/ ClickSubmit
  \/ SubmitResolves
  \/ SubmitRejects
  \/ ClickExit
  \/ ClickExitCancel
  \/ ClickExitConfirm
  \/ ExitSaveSettles
  \/ NavigationCompletes
  \/ ClickRetry
  \/ ClickRetryCancel
  \/ QueryLoads
  \/ QueryRefetches

SpecScreen == InitScreen /\ [][NextScreen]_vars

\* C19: the submit mutation is invoked only when the number of answered
\* questions equals the number of questions.
C19_SubmitOnlyWhenAllAnswered ==
  [][ checkpointScreen'.invoked > checkpointScreen.invoked =>
        answeredCount(checkpointState) = totalQuestions(checkpointState) ]_vars

\* C20: a failed submit loses nothing. The step in which the mutation
\* rejects leaves the answers, the question list, the current index, the
\* status and the score as they were, the checkpoint is not complete, and
\* the payload a retry builds is the one the state gave before the failure.
C20_FailedSubmitKeepsState ==
  [][ ( /\ checkpointScreen'.failed > checkpointScreen.failed
        /\ checkpointScreen.mounted ) =>
        /\ checkpointState'.answers = checkpointState.answers
        /\ checkpointState'.questions = checkpointState.questions
        /\ checkpointState'.currentIndex = checkpointState.currentIndex
        /\ checkpointState'.status = checkpointState.status
        /\ checkpointState'.status # "complete"
        /\ checkpointState'.score = Nil
        /\ submitPayload(screenQuestions(checkpointScreen'),
                         useCheckpointState_submitCheckpoint(checkpointState').answers)
           = submitPayload(screenQuestions(checkpointScreen),
                           useCheckpointState_submitCheckpoint(checkpointState).answers) ]_vars

\* A submit has failed and the next one (Retry, or Submit once more) is in
\* flight with the same answers, all of them, as the submit that failed.
C20_Witness ==
  /\ checkpointScreen # Nil
  /\ checkpointScreen.failed = 1
  /\ Len(checkpointScreen.inFlight) = 1
  /\ checkpointScreen.inFlight[1] = checkpointScreen.lastFailed
  /\ Len(checkpointScreen.inFlight[1]) = NumScreenQuestions
  /\ answeredCount(checkpointState) = NumScreenQuestions

\* C23: the answer selected for the current question is the one
\* currentAnswer gives back, whatever its value (option index 0 and the
\* empty string included): a current question that is counted as answered
\* has a current answer that is not null, which is what enables Next.
C23_AnswerRoundTrip ==
  ( /\ checkpointState # Nil
    /\ currentQuestion(checkpointState) # Nil
    /\ currentQuestion(checkpointState).id \in DOMAIN checkpointState.answers ) =>
      /\ currentAnswer(checkpointState) # Nil
      /\ currentAnswer(checkpointState)
           = checkpointState.answers[currentQuestion(checkpointState).id]

\* SpecScreen with the steps of the screen taken as long as one is enabled.
SpecScreenLive == SpecScreen /\ WF_vars(NextScreen)

\* C24: once the query has answered with at least one question, the hook
\* leaves 'loading': eventually its status is 'question' over the questions
\* loaded (or the visit has moved on).
C24_LeavesLoading ==
  []( ( /\ checkpointScreen.mounted
        /\ Len(screenQuestions(checkpointScreen)) > 0
        /\ checkpointState.status = "loading" )
      => <>( \/ ~checkpointScreen.mounted
             \/ /\ checkpointState.status # "loading"
                /\ totalQuestions(checkpointState) > 0 ) )

\* C22: in every MCQ generateQuestionSet returns, whatever order the shuffle
\* left, options[correctAnswerIndex] is the correct option of the template,
\* the first entry of optionTemplates[difficulty].
C22_CorrectOptionKept ==
  Returned =>
    \A i \in DOMAIN result.questions :
      result.questions[i].type = "mcq" =>
        result.questions[i].options[result.questions[i].correctAnswerIndex]
          = OptionText(result.questions[i].difficulty, 0)

\* C27: the adaptationModifier content.getContent returns (kept in
\* ten-thousandths) is a whole number, and with the complexityScore of the
\* same response it passes the validation of generateQuestionSet, which
\* wants an integer in 0..2.
C27_ModifierValidForGenerate ==
  ( /\ request # Nil /\ request.proc = "content.getContent"
    /\ response.error = None ) =>
      /\ response.adaptationModifier % 10000 = 0
      /\ ConfigIsValid([complexityScore |-> response.complexityScore,
                        adaptationModifier |-> response.adaptationModifier \div 10000])

\* C25: 'completed' is absorbing. A UserProgress row that has status
\* 'completed' keeps it in every step: no call of the router brings it back
\* to 'in_progress' or 'not_started'.
C25_CompletedAbsorbing ==
  [][ \A key \in DOMAIN userProgress :
        userProgress[key].status = "completed" =>
          /\ key \in DOMAIN userProgress'
          /\ userProgress'[key].status = "completed" ]_vars

\* The exit the user confirmed goes on in this step: progress.save has
\* settled and the rest of handleExitConfirm runs on the mounted screen.
exitSettlesNow ==
  /\ checkpointScreen.exiting # Nil
  /\ checkpointScreen'.exiting = Nil
  /\ checkpointScreen.mounted

C26_AtMostOneAttempt ==
  checkpointScreen # Nil => Len(attempt) <= 1

(***************************************************************************)
(* The offline sync queue (grit_offline_sync_queue): enqueueMutation,      *)
(* getOfflineQueue, clearOfflineQueue and flushQueue.  flushQueue is an    *)
(* async function: it runs up to its next await in one step, so            *)
(* enqueueMutation can run between two executeFn calls.  JSON.stringify    *)
(* and JSON.parse give back the items as they were (id, mutationKey and a  *)
(* numeric payload; the timestamp is never read), and a key that is absent *)
(* reads as the empty queue.                                               *)
(***************************************************************************)

\* Bound: items enqueueMutation is called for.
MaxEnqueued == 3

\* Bound: calls of flushQueue.
MaxFlushes == 2

\* The payloads of the queued mutations (positions to save).
QueuePayloads == {0, 1}

\* getOfflineQueue
getOfflineQueue(localStorage) == localStorage

\* enqueueMutation: the stored queue with a new item, its id fresh.
enqueueMutation(localStorage, uuid, mutationKey, payload) ==
  Append(getOfflineQueue(localStorage),
         [id |-> uuid, mutationKey |-> mutationKey, payload |-> payload])

\* clearOfflineQueue: the key is removed, whatever it holds.
clearOfflineQueue(localStorage) == << >>

\* flushQueue up to its first await: the queue is read once; an empty queue
\* returns at once.
flushQueue(flush, localStorage) ==
  LET queue == getOfflineQueue(localStorage) IN
    IF Len(queue) = 0
      THEN [flush |-> [flush EXCEPT !.pc = "returned", !.queue = queue, !.index = 0,
                                    !.calls = @ + 1],
            localStorage |-> localStorage]
      ELSE [flush |-> [flush EXCEPT !.pc = "executing", !.queue = queue, !.index = 1,
                                    !.calls = @ + 1],
            localStorage |-> localStorage]

\* flushQueue from the await of executeFn on, resolved or rejected alike
\* (the catch only logs): the next item, or after the last one
\* clearOfflineQueue and the return.
flushQueueResumes(flush, localStorage, received) ==
  IF flush.index < Len(flush.queue)
    THEN [flush |-> [flush EXCEPT !.index = @ + 1], localStorage |-> localStorage]
    ELSE [flush |-> [flush EXCEPT !.pc = "returned"],
          localStorage |-> clearOfflineQueue(localStorage)]

flushFrame == UNCHANGED <<genVars, dbVars, rpcVars, resultsScreen, autoSave,
                          checkpointState, checkpointScreen>>

InitFlush ==
  /\ config = Nil
  /\ result = Nil
  /\ clientQuestions = Nil
  /\ attempt = <<>>
  /\ userProgress = <<>>
  /\ user = Users
  /\ request = Nil
  /\ response = Nil
  /\ resultsScreen = Nil
  /\ offlineQueue = [pc |-> "idle", queue |-> <<>>, index |-> 0, calls |-> 0]
  /\ autoSave = Nil
  /\ browser = [localStorage |-> <<>>, received |-> {}, uuids |-> 0]
  /\ checkpointState = Nil
  /\ checkpointScreen = Nil

\* The application queues a mutation (at any time, a flush running or not).
EnqueueMutation ==
  /\ browser.uuids < MaxEnqueued
  /\ \E payload \in QueuePayloads :
       browser' = [browser EXCEPT
                     !.uuids = @ + 1,
                     !.localStorage = enqueueMutation(@, browser.uuids + 1, "progress.save", payload)]
  /\ UNCHANGED offlineQueue
  /\ flushFrame

\* The connection is back and the application calls flushQueue.
FlushQueueCalled ==
  /\ offlineQueue.pc # "executing"
  /\ offlineQueue.calls < MaxFlushes
  /\ \E after \in {flushQueue(offlineQueue, browser.localStorage)} :
       /\ offlineQueue' = after.flush
       /\ browser' = [browser EXCEPT !.localStorage = after.localStorage]
  /\ flushFrame

\* executeFn resolves: the server has executed the item.
ExecuteResolves ==
  /\ offlineQueue.pc = "executing"
  /\ \E received \in {browser.received \cup {offlineQueue.queue[offlineQueue.index].id}} :
       \E after \in {flushQueueResumes(offlineQueue, browser.localStorage, received)} :
         /\ offlineQueue' = after.flush
         /\ browser' = [browser EXCEPT !.received = received,
                                       !.localStorage = after.localStorage]
  /\ flushFrame

\* executeFn rejects: the item was not executed.
ExecuteRejects ==
  /\ offlineQueue.pc = "executing"
  /\ \E after \in {flushQueueResumes(offlineQueue, browser.localStorage, browser.received)} :
       /\ offlineQueue' = after.flush
       /\ browser' = [browser EXCEPT !.localStorage = after.localStorage]
  /\ flushFrame

NextFlush ==
  \/ EnqueueMutation
  \/ FlushQueueCalled
  \/ ExecuteResolves
  \/ ExecuteRejects

SpecFlush == InitFlush /\ [][NextFlush]_vars

\* C28: flushQueue removes from the stored queue only what it executed.
\* When flushQueue has returned, every item enqueueMutation was called for
\* and no executeFn call has succeeded for (a failed item, or an item
\* enqueued while the flush was running) is in the stored queue.
C28_FlushKeepsUnsent ==
  offlineQueue.pc = "returned" =>
    \A uuid \in 1 .. browser.uuids :
      \/ uuid \in browser.received
      \/ \E k \in DOMAIN browser.localStorage : browser.localStorage[k].id = uuid

====
